---- MODULE Spec2Model ----
(***************************************************************************)
(* A model of the rendering core of htmlgenerator: python values, the      *)
(* escaping layer (safestring.py), lazy values (lazy.py), the element      *)
(* classes and their render methods (base.py) and the markup tags with     *)
(* their attribute flattening (htmltags.py).                               *)
(*                                                                         *)
(* A text is a sequence of characters (one-character strings; a run of     *)
(* characters none of which is special to HTML may be written as one       *)
(* token).  A dict with string keys is a function over Keys whose missing  *)
(* keys map to Absent.  A generator is the record of what it yields, the   *)
(* exception that ends it (if any), the state in which it leaves the       *)
(* context dict it was handed, and the messages it passed to the           *)
(* exception handler.                                                      *)
(*                                                                         *)
(* The tree functions (filter, wrap, delete, replace, copy) change objects *)
(* in place, so for them the elements live in a heap: a sequence of        *)
(* objects, an object's identity its index, an element child a reference.  *)
(***************************************************************************)
EXTENDS Integers, Sequences, FiniteSets, TLC

VARIABLES tree, context, last, heap, clone, html_id_cache

vars == <<tree, context, last, heap, clone, html_id_cache>>

----------------------------------------------------------------------------
(* Python values *)

None == [k |-> "none"]
Absent == [k |-> "absent"]
PyBool(b) == [k |-> "bool", b |-> b]
PyInt(n) == [k |-> "int", n |-> n]
Text(s) == [k |-> "str", s |-> s, safe |-> FALSE]
PyList(items) == [k |-> "list", items |-> items]

\* class SafeString(str, SafeData): a str that has __html__
SafeString(s) == [k |-> "str", s |-> s, safe |-> TRUE]

\* ContextValue(value): a Lazy resolved by a lookup in the context
C(key) == [k |-> "lazy", key |-> key]

\* what copy.deepcopy returns for a Lazy: Lazy.__getattr__ answers the lookup
\* of __deepcopy__ with a ContextFunction, and calling that one with the memo
\* gives ContextFunction(resolve_call), itself a Lazy
DeepcopyOfLazy(v) == [k |-> "lazy", deepcopy_of |-> v]

IsLazy(v) == v.k = "lazy"
IsDeepcopyOfLazy(v) == v.k = "lazy" /\ "deepcopy_of" \in DOMAIN v
IsBaseElement(v) == v.k = "elem"
IsHTMLElement(v) == v.k = "elem" /\ v.cls \in {"HTMLElement", "VoidElement"}
IsBool(v) == v.k = "bool"

\* hasattr(value, "__html__")
HasHtml(v) == v.k = "str" /\ v.safe

\* python truthiness (an element is a list: true when it has children)
Truthy(v) ==
  CASE v.k = "none" -> FALSE
    [] v.k = "bool" -> v.b
    [] v.k = "int" -> v.n # 0
    [] v.k = "str" -> v.s # <<>>
    [] v.k = "list" -> v.items # <<>>
    [] v.k = "elem" -> v.ch # <<>>

RECURSIVE IntStr(_)
IntStr(n) ==
  LET d == <<"0", "1", "2", "3", "4", "5", "6", "7", "8", "9">>
  IN IF n < 10 THEN <<d[n + 1]>> ELSE IntStr(n \div 10) \o <<d[(n % 10) + 1]>>

\* BaseElement.__repr__, which is also the str() of an element: the name of
\* the class and the repr of the list of children.  The repr of a str is the
\* str between single quotes (for a str without single quote and backslash)
RECURSIVE Repr(_)
RECURSIVE ReprItems(_)
ReprItems(items) ==
  IF items = <<>> THEN <<>>
  ELSE IF Len(items) = 1 THEN Repr(items[1])
  ELSE Repr(items[1]) \o <<",", " ">> \o ReprItems(Tail(items))
Repr(v) ==
  CASE v.k = "str" -> <<"'">> \o v.s \o <<"'">>
    [] v.k = "int" -> IntStr(v.n)
    [] v.k = "bool" -> IF v.b THEN <<"T", "r", "u", "e">> ELSE <<"F", "a", "l", "s", "e">>
    [] v.k = "none" -> <<"N", "o", "n", "e">>
    [] v.k = "elem" -> <<v.cls, "[">> \o ReprItems(v.ch) \o <<"]">>

\* str(value), for the values a tree can emit
str(v) ==
  CASE v.k = "str" -> v.s
    [] v.k = "int" -> IntStr(v.n)
    [] v.k = "bool" -> IF v.b THEN <<"T", "r", "u", "e">> ELSE <<"F", "a", "l", "s", "e">>
    [] v.k = "none" -> <<"N", "o", "n", "e">>
    [] v.k = "elem" -> Repr(v)

----------------------------------------------------------------------------
(* safestring.py *)

\* html.escape(s, quote=True), one character at a time
EscapeChar(c) ==
  CASE c = "&" -> <<"&", "a", "m", "p", ";">>
    [] c = "<" -> <<"&", "l", "t", ";">>
    [] c = ">" -> <<"&", "g", "t", ";">>
    [] c = "\"" -> <<"&", "q", "u", "o", "t", ";">>
    [] c = "'" -> <<"&", "#", "x", "2", "7", ";">>
    [] OTHER -> <<c>>

RECURSIVE HtmlEscape(_)
HtmlEscape(s) ==
  IF s = <<>> THEN <<>> ELSE EscapeChar(Head(s)) \o HtmlEscape(Tail(s))

mark_safe(v) == IF HasHtml(v) THEN v ELSE SafeString(v.s)

\* conditional_escape without the __html__ test: safe text is escaped again
conditional_escape_always(v) == mark_safe(Text(HtmlEscape(str(v))))

conditional_escape(v) ==
  IF HasHtml(v) THEN v ELSE mark_safe(Text(HtmlEscape(str(v))))

----------------------------------------------------------------------------
(* lazy.py *)

\* resolve_lookup(context, lookup) for a lookup of one segment in a dict
\* context: the key's value, or None after the three failed accesses
resolve_lookup(ctx, key) == IF ctx[key] = Absent THEN None ELSE ctx[key]

\* type(value).__name__
TypeName(v) ==
  CASE v.k = "none" -> "NoneType"
    [] v.k = "int" -> "int"
    [] v.k = "bool" -> "bool"
    [] v.k = "str" -> IF v.safe THEN "SafeString" ELSE "str"
    [] v.k = "list" -> "list"
    [] v.k = "elem" -> v.cls

\* an exception raised while a value was resolved, in place of the value
Raised(exc) == [k |-> "raised", exc |-> exc]
IsRaised(v) == v.k = "raised"

\* getattr(value, "__deepcopy__") on a value that has no such attribute
NoDeepcopy(v) ==
  [k |-> "exc", type |-> "AttributeError",
   msg |-> <<"'", TypeName(v), "'", " object has no attribute ", "'", "__deepcopy__", "'">>]

\* resolve_lazy(value, context): resolve until the value is no Lazy; the
\* deep copy of a Lazy resolves the Lazy and asks its value for __deepcopy__
RECURSIVE resolve_lazy(_, _)
resolve_lazy(v, ctx) ==
  IF ~IsLazy(v) THEN v
  ELSE IF IsDeepcopyOfLazy(v)
  THEN LET inner == resolve_lazy(v.deepcopy_of, ctx)
       IN IF IsRaised(inner) THEN inner ELSE Raised(NoDeepcopy(inner))
  ELSE resolve_lazy(resolve_lookup(ctx, v.key), ctx)

----------------------------------------------------------------------------
(* base.py: the element classes.  An element is a list (its children, ch)  *)
(* with the fields its constructor sets.                                   *)

LoopVars == {"i"}
IndexKey(name) == name \o "_index"
EXCEPTION_HANDLER_NAME == "_htmlgenerator_exception_handler"
Keys ==
  {"c", "d", "x", "count", EXCEPTION_HANDLER_NAME}
  \cup LoopVars \cup {IndexKey(v) : v \in LoopVars}

\* the empty dict, and d[key] = value
EmptyDict == [key \in Keys |-> Absent]
DictSet(d, key, value) ==
  [other \in Keys |-> IF other = key THEN value ELSE d[other]]

\* {**a, **b}
DictMerge(a, b) == [key \in Keys |-> IF b[key] # Absent THEN b[key] ELSE a[key]]

BaseElement(children) == [k |-> "elem", cls |-> "BaseElement", ch |-> children]

\* If.__init__: the list is always (true_child, false_child)
If(condition, true_child, false_child) ==
  [k |-> "elem", cls |-> "If", ch |-> <<true_child, false_child>>,
   condition |-> condition]

Iterator(iterator, loopvariable, content) ==
  [k |-> "elem", cls |-> "Iterator", ch |-> <<content>>,
   iterator |-> iterator, loopvariable |-> loopvariable]

WithContext(children, kwargs) ==
  [k |-> "elem", cls |-> "WithContext", ch |-> children,
   additional_context |-> kwargs]

Fragment(name, children) ==
  [k |-> "elem", cls |-> "Fragment", ch |-> children, name |-> name]

\* htmltags.py: a tag class fixes tag; attributes is the ordered dict of the
\* keyword arguments, a sequence of [key, value] entries with distinct keys
HTMLElement(tag, children, attributes) ==
  [k |-> "elem", cls |-> "HTMLElement", tag |-> tag, ch |-> children,
   attributes |-> attributes, lazy_attributes |-> None]

VoidElement(tag, attributes) ==
  [k |-> "elem", cls |-> "VoidElement", tag |-> tag, ch |-> <<>>,
   attributes |-> attributes, lazy_attributes |-> None]

----------------------------------------------------------------------------
(* Generators and exceptions *)

NoExc == [k |-> "noexc"]
Exc(type, msg) == [k |-> "exc", type |-> type, msg |-> msg]

\* what a generator did: out is what it yielded (before exc, if it raised)
Gen(exc, out, ctx, log) == [exc |-> exc, out |-> out, ctx |-> ctx, log |-> log]

\* fragment=None
NoFragment == None

\* "".join(pieces) of str pieces
RECURSIVE Join(_)
Join(pieces) ==
  IF pieces = <<>> THEN <<>> ELSE str(Head(pieces)) \o Join(Tail(pieces))

\* calling render(context, stringify=..., fragment=...) on a tag, whose
\* render(self, context) takes neither keyword
UnexpectedKeyword(cls) ==
  Exc("TypeError",
      <<cls, ".render() got an unexpected keyword argument ", "'", "stringify", "'">>)

NotIterable(v) ==
  Exc("TypeError",
      <<"'", (CASE v.k = "none" -> "NoneType" [] v.k = "int" -> "int"
                [] v.k = "bool" -> "bool"),
        "'", " object is not iterable">>)

IndexError == Exc("IndexError", <<"list index out of range">>)

\* the marker _handle_exception yields, a plain str
ErrorMarker(exception) ==
  LET e == conditional_escape(Text(exception.msg)).s
  IN Text(<<"<", "pre style=", "\"",
            "border: solid 1px red; color: red; padding: 1rem; background-color: #ffdddd",
            "\"", ">", "    ", "<", "code", ">", "~~~ Exception: ">>
          \o e \o
          <<" ~~~", "<", "/code", ">", "<", "/pre", ">", "<", "script", ">",
            "console.log(", "\"", "Error: ">>
          \o e \o
          <<"\"", ")", "<", "/script", ">">>)

\* a function object
PyFunc(name) == [k |-> "func", name |-> name]
default_exception_handler == PyFunc("default_exception_handler")

\* one call handler(context, message); of the message, the last line
HandlerCall(handler, ctx, exception) ==
  [handler |-> handler, context |-> ctx, message |-> exception.msg]

\* _handle_exception with the default handler called whatever the context holds
handle_exception_default_only(exception, ctx) ==
  Gen(NoExc, <<ErrorMarker(exception)>>, ctx,
      <<HandlerCall(default_exception_handler, ctx, exception)>>)

\* _handle_exception(exception, context): the handler found in the context
\* (or the default one) is called with the message, then the marker is yielded
handle_exception(exception, ctx) ==
  LET handler == IF ctx[EXCEPTION_HANDLER_NAME] = Absent
                 THEN default_exception_handler
                 ELSE ctx[EXCEPTION_HANDLER_NAME]
  IN Gen(NoExc, <<ErrorMarker(exception)>>, ctx, <<HandlerCall(handler, ctx, exception)>>)

----------------------------------------------------------------------------
(* base.py and htmltags.py: rendering *)

\* Every call from one of the operators below to another goes through Call,
\* which dispatches on the name of the callee (defined after them).
RECURSIVE Call(_, _)

\* _render_element(element, context, stringify, fragment)
render_element(element, ctx, stringify, fragment) ==
  LET e == resolve_lazy(element, ctx)
  IN IF IsRaised(e)
     THEN handle_exception(e.exc, ctx)
     ELSE IF IsBaseElement(e)
     THEN LET r == Call("call_render", <<e, ctx, stringify, fragment>>)
          IN IF r.exc = NoExc
             THEN r
             ELSE LET h == handle_exception(r.exc, r.ctx)
                  IN Gen(NoExc, r.out \o h.out, h.ctx, r.log \o h.log)
     ELSE IF e # None /\ fragment = NoFragment
          THEN Gen(NoExc, <<IF stringify THEN conditional_escape(e) ELSE e>>, ctx, <<>>)
          ELSE Gen(NoExc, <<>>, ctx, <<>>)

\* the loop of BaseElement.render_children, from child i on
render_children_from(self, i, ctx, stringify, fragment) ==
  IF i > Len(self.ch)
  THEN Gen(NoExc, <<>>, ctx, <<>>)
  ELSE LET r == Call("render_element", <<self.ch[i], ctx, stringify, fragment>>)
           rest == Call("render_children_from", <<self, i + 1, r.ctx, stringify, fragment>>)
       IN Gen(NoExc, r.out \o rest.out, rest.ctx, r.log \o rest.log)

\* BaseElement.render_children(context, stringify, fragment)
render_children(self, ctx, stringify, fragment) ==
  Call("render_children_from", <<self, 1, ctx, stringify, fragment>>)

\* BaseElement.render
BaseElement_render(self, ctx, stringify, fragment) ==
  Call("render_children", <<self, ctx, stringify, fragment>>)

\* If.render with the two branches exchanged
If_render_swapped(self, ctx, stringify, fragment) ==
  IF IsRaised(resolve_lazy(self.condition, ctx))
  THEN Gen(resolve_lazy(self.condition, ctx).exc, <<>>, ctx, <<>>)
  ELSE IF ~Truthy(resolve_lazy(self.condition, ctx))
  THEN Call("render_element", <<self.ch[1], ctx, stringify, fragment>>)
  ELSE Call("render_element", <<self.ch[2], ctx, stringify, fragment>>)

\* If.render
If_render(self, ctx, stringify, fragment) ==
  IF IsRaised(resolve_lazy(self.condition, ctx))
  THEN Gen(resolve_lazy(self.condition, ctx).exc, <<>>, ctx, <<>>)
  ELSE IF Truthy(resolve_lazy(self.condition, ctx))
  THEN IF Len(self.ch) > 0
       THEN Call("render_element", <<self.ch[1], ctx, stringify, fragment>>)
       ELSE Gen(IndexError, <<>>, ctx, <<>>)
  ELSE IF Len(self.ch) > 1
       THEN Call("render_element", <<self.ch[2], ctx, stringify, fragment>>)
       ELSE Gen(NoExc, <<>>, ctx, <<>>)

\* what enumerate() draws from a value: a list's items, a str's characters,
\* an element's children
IsIterable(v) == v.k \in {"list", "str", "elem"}
Items(v) ==
  CASE v.k = "list" -> v.items
    [] v.k = "str" -> [j \in 1..Len(v.s) |-> Text(<<v.s[j]>>)]
    [] v.k = "elem" -> v.ch

\* the for loop with enumerate(..., 1): the index counts from one
Iterator_loop_from_one(self, items, i, local, stringify, fragment) ==
  IF i > Len(items)
  THEN Gen(NoExc, <<>>, local, <<>>)
  ELSE LET c1 == DictSet(local, self.loopvariable, items[i])
           c2 == DictSet(c1, IndexKey(self.loopvariable), PyInt(i))
           r == Call("render_children", <<self, c2, stringify, fragment>>)
           rest == Call("Iterator_loop", <<self, items, i + 1, r.ctx, stringify, fragment>>)
       IN Gen(NoExc, r.out \o rest.out, rest.ctx, r.log \o rest.log)

\* the for loop of Iterator.render from item i on, on the dict local
Iterator_loop(self, items, i, local, stringify, fragment) ==
  IF i > Len(items)
  THEN Gen(NoExc, <<>>, local, <<>>)
  ELSE LET c1 == DictSet(local, self.loopvariable, items[i])
           c2 == DictSet(c1, IndexKey(self.loopvariable), PyInt(i - 1))
           r == Call("render_children", <<self, c2, stringify, fragment>>)
           rest == Call("Iterator_loop", <<self, items, i + 1, r.ctx, stringify, fragment>>)
       IN Gen(NoExc, r.out \o rest.out, rest.ctx, r.log \o rest.log)

\* Iterator.render without context = dict(context): the loop variable and
\* its index are written into the caller's dict
Iterator_render_no_copy(self, ctx, stringify, fragment) ==
  LET it == resolve_lazy(self.iterator, ctx)
  IN IF IsRaised(it)
     THEN Gen(it.exc, <<>>, ctx, <<>>)
     ELSE IF ~IsIterable(it)
     THEN Gen(NotIterable(it), <<>>, ctx, <<>>)
     ELSE Call("Iterator_loop", <<self, Items(it), 1, ctx, stringify, fragment>>)

\* Iterator.render: the loop works on a copy of the caller's dict
Iterator_render(self, ctx, stringify, fragment) ==
  LET local == ctx
      it == resolve_lazy(self.iterator, local)
  IN IF IsRaised(it)
     THEN Gen(it.exc, <<>>, ctx, <<>>)
     ELSE IF ~IsIterable(it)
     THEN Gen(NotIterable(it), <<>>, ctx, <<>>)
     ELSE LET r == Call("Iterator_loop", <<self, Items(it), 1, local, stringify, fragment>>)
          IN Gen(NoExc, r.out, ctx, r.log)

\* WithContext.render with context.update(self.additional_context): the
\* overrides are written into the caller's dict
WithContext_render_update(self, ctx, stringify, fragment) ==
  Call("BaseElement_render", <<self, DictMerge(ctx, self.additional_context),
                              stringify, fragment>>)

\* WithContext.render: the children see a new dict
WithContext_render(self, ctx, stringify, fragment) ==
  LET r == Call("BaseElement_render", <<self, DictMerge(ctx, self.additional_context),
                              stringify, fragment>>)
  IN Gen(r.exc, r.out, ctx, r.log)

\* Fragment.render
Fragment_render(self, ctx, stringify, fragment) ==
  IF fragment = NoFragment \/ fragment = self.name
  THEN Call("BaseElement_render", <<self, ctx, stringify, NoFragment>>)
  ELSE Gen(NoExc, <<>>, ctx, <<>>)

\* the attribute string with its leading space, or nothing
AttrStr(s) == IF s # <<>> THEN <<" ">> \o s ELSE s

\* HTMLElement.render(self, context)
HTMLElement_render(self, ctx) ==
  LET a == Call("flatattrs", <<self.attributes, ctx>>)
  IN IF a.exc # NoExc
     THEN Gen(a.exc, <<>>, a.ctx, a.log)
     ELSE LET r == Call("render_children", <<self, a.ctx, TRUE, NoFragment>>)
          IN Gen(NoExc,
                 <<Text(<<"<">> \o self.tag \o AttrStr(a.out) \o <<">">>)>>
                   \o r.out
                   \o <<Text(<<"<", "/">> \o self.tag \o <<">">>)>>,
                 r.ctx, a.log \o r.log)

\* VoidElement.render(self, context)
VoidElement_render(self, ctx) ==
  LET a == Call("flatattrs", <<self.attributes, ctx>>)
  IN IF a.exc # NoExc
     THEN Gen(a.exc, <<>>, a.ctx, a.log)
     ELSE Gen(NoExc,
              <<Text(<<"<">> \o self.tag \o <<" ">> \o AttrStr(a.out) \o <<" ", "/", ">">>)>>,
              a.ctx, a.log)

\* element.render(context, stringify=stringify, fragment=fragment)
call_render(self, ctx, stringify, fragment) ==
  CASE self.cls = "BaseElement" -> Call("BaseElement_render", <<self, ctx, stringify, fragment>>)
    [] self.cls = "If" -> Call("If_render", <<self, ctx, stringify, fragment>>)
    [] self.cls = "Iterator" -> Call("Iterator_render", <<self, ctx, stringify, fragment>>)
    [] self.cls = "WithContext" -> Call("WithContext_render", <<self, ctx, stringify, fragment>>)
    [] self.cls = "Fragment" -> Call("Fragment_render", <<self, ctx, stringify, fragment>>)
    [] self.cls = "FormatString" ->
         Call("FormatString_render", <<self, ctx, stringify, fragment>>)
    [] IsHTMLElement(self) -> Gen(UnexpectedKeyword(self.cls), <<>>, ctx, <<>>)

\* element.render(context)
call_render_positional(self, ctx) ==
  CASE self.cls = "HTMLElement" -> Call("HTMLElement_render", <<self, ctx>>)
    [] self.cls = "VoidElement" -> Call("VoidElement_render", <<self, ctx>>)
    [] OTHER -> Call("call_render", <<self, ctx, TRUE, NoFragment>>)

\* render(root, basecontext, fragment): the joined str, or the exception
render(root, basecontext, fragment) ==
  LET r == Call("call_render", <<root, basecontext, TRUE, fragment>>)
  IN [exc |-> r.exc,
      out |-> IF r.exc = NoExc THEN Join(r.out) ELSE <<>>,
      ctx |-> r.ctx, log |-> r.log]

(* htmltags.py: flatattrs *)

\* key.lstrip("_") in place of key[1:]: every leading underscore is removed
RECURSIVE LStrip(_)
LStrip(key) == IF key # <<>> /\ key[1] = "_" THEN LStrip(Tail(key)) ELSE key
AttrName_lstrip(key) ==
  LET k1 == LStrip(key)
  IN [j \in 1..Len(k1) |-> IF k1[j] = "_" THEN "-" ELSE k1[j]]

\* key[1:] if key[0] == "_", then key.replace("_", "-")
AttrName(key) ==
  LET k1 == IF key[1] = "_" THEN Tail(key) ELSE key
  IN [j \in 1..Len(k1) |-> IF k1[j] = "_" THEN "-" ELSE k1[j]]

\* the value of one attribute after its element, if it is one, is rendered:
\* [exc, value, ctx, log]
AttrValue(value0, ctx) ==
  LET value == resolve_lazy(value0, ctx)
  IN IF IsRaised(value)
     THEN [exc |-> value.exc, value |-> None, ctx |-> ctx, log |-> <<>>]
     ELSE IF IsBaseElement(value) /\ value.cls = "If"
     THEN LET r1 == Call("If_render", <<value, ctx, FALSE, NoFragment>>)
          IN IF r1.exc # NoExc
             THEN [exc |-> r1.exc, value |-> None, ctx |-> r1.ctx, log |-> r1.log]
             ELSE IF Len(r1.out) = 1 /\ IsBool(r1.out[1])
             THEN [exc |-> NoExc, value |-> r1.out[1], ctx |-> r1.ctx, log |-> r1.log]
             ELSE LET r2 == Call("If_render", <<value, r1.ctx, TRUE, NoFragment>>)
                  IN [exc |-> r2.exc,
                      value |-> IF r2.out # <<>> THEN Text(Join(r2.out)) ELSE None,
                      ctx |-> r2.ctx, log |-> r1.log \o r2.log]
     ELSE IF IsBaseElement(value)
     THEN LET r == Call("call_render_positional", <<value, ctx>>)
          IN [exc |-> r.exc,
              value |-> IF r.out # <<>> THEN Text(Join(r.out)) ELSE None,
              ctx |-> r.ctx, log |-> r.log]
     ELSE [exc |-> NoExc, value |-> value, ctx |-> ctx, log |-> <<>>]

\* the boolean branch taken for every key, "value" included
AttrItem_any_key(key0, value) ==
  LET key == AttrName(key0)
  IN IF IsBool(value)
     THEN IF value.b THEN <<key>> ELSE <<>>
     ELSE <<key \o <<"=", "\"">> \o str(value) \o <<"\"">>>>

\* what one attribute appends to attlist: nothing, the key, or key="value"
AttrItem(key0, value) ==
  LET key == AttrName(key0)
  IN IF IsBool(value) /\ key # <<"value">>
     THEN IF value.b THEN <<key>> ELSE <<>>
     ELSE <<key \o <<"=", "\"">> \o str(value) \o <<"\"">>>>

\* the for loop of flatattrs from entry i on: attlist
flatattrs_loop(attributes, i, ctx) ==
  IF i > Len(attributes)
  THEN Gen(NoExc, <<>>, ctx, <<>>)
  ELSE LET v == Call("AttrValue", <<attributes[i].value, ctx>>)
       IN IF v.exc # NoExc
          THEN Gen(v.exc, <<>>, v.ctx, v.log)
          ELSE LET rest == Call("flatattrs_loop", <<attributes, i + 1, v.ctx>>)
                   item == IF v.value = None THEN <<>>
                           ELSE AttrItem(attributes[i].key, v.value)
               IN Gen(rest.exc, item \o rest.out, rest.ctx, v.log \o rest.log)

\* " ".join(attlist)
RECURSIVE JoinSpace(_)
JoinSpace(attlist) ==
  IF attlist = <<>> THEN <<>>
  ELSE IF Len(attlist) = 1 THEN attlist[1]
  ELSE attlist[1] \o <<" ">> \o JoinSpace(Tail(attlist))

\* flatattrs(attributes, context)
flatattrs(attributes, ctx) ==
  LET r == Call("flatattrs_loop", <<attributes, 1, ctx>>)
  IN Gen(r.exc, IF r.exc = NoExc THEN JoinSpace(r.out) ELSE <<>>, r.ctx, r.log)

(* base.py: ContextFormatter and FormatString.  The format strings have   *)
(* replacement fields without conversion and format specification: {} is   *)
(* numbered by its position, {0} names a positional and {x} a keyword      *)
(* argument; {{ and }} stand for a brace.                                  *)

\* FormatString(*args, **kwargs): args[1] is the format string
FormatString(args, kwargs) ==
  [k |-> "elem", cls |-> "FormatString", ch |-> <<>>, args |-> args, kwargs |-> kwargs]

\* string.Formatter.parse(str(format_string)) from character i on: the
\* pieces (literal_text, field_name), field_name None after the last literal
RECURSIVE Formatter_parse(_, _, _)
Formatter_parse(fs, i, literal) ==
  IF i > Len(fs)
  THEN IF literal = <<>> THEN <<>> ELSE <<[literal_text |-> literal, field_name |-> None]>>
  ELSE IF fs[i] \in {"{", "}"} /\ i < Len(fs) /\ fs[i + 1] = fs[i]
  THEN <<[literal_text |-> Append(literal, fs[i]), field_name |-> None]>>
       \o Formatter_parse(fs, i + 2, <<>>)
  ELSE IF fs[i] = "{"
  THEN IF fs[i + 1] = "}"
       THEN <<[literal_text |-> literal, field_name |-> Text(<<>>)]>>
            \o Formatter_parse(fs, i + 2, <<>>)
       ELSE <<[literal_text |-> literal, field_name |-> Text(<<fs[i + 1]>>)]>>
            \o Formatter_parse(fs, i + 3, <<>>)
  ELSE Formatter_parse(fs, i + 1, Append(literal, fs[i]))

\* ContextFormatter.parse that escapes the literals of a safe format string too
ContextFormatter_parse_escape_all(format_string) ==
  LET pieces == Formatter_parse(format_string.s, 1, <<>>)
  IN [j \in 1..Len(pieces) |->
        [literal_text |-> conditional_escape(Text(pieces[j].literal_text)),
         field_name |-> pieces[j].field_name]]

\* ContextFormatter.parse(format_string): every literal goes through
\* conditional_escape, marked safe before when the format string is
ContextFormatter_parse(format_string) ==
  LET is_safe == HasHtml(format_string)
      pieces == Formatter_parse(format_string.s, 1, <<>>)
  IN [j \in 1..Len(pieces) |->
        [literal_text |-> conditional_escape(IF is_safe
                                             THEN mark_safe(Text(pieces[j].literal_text))
                                             ELSE Text(pieces[j].literal_text)),
         field_name |-> pieces[j].field_name]]

\* extract with "" for every falsy value
extract_falsy_is_empty(value, ctx) ==
  IF IsBaseElement(value)
  THEN LET r == Call("render", <<value, ctx, NoFragment>>)
       IN [value |-> IF r.exc # NoExc THEN Raised(r.exc) ELSE mark_safe(Text(r.out)),
           log |-> r.log]
  ELSE LET v == resolve_lazy(value, ctx)
       IN [value |-> IF IsRaised(v) THEN v ELSE IF ~Truthy(v) THEN Text(<<>>) ELSE v,
           log |-> <<>>]

\* extract(value) of get_value: [value, log], the value Raised when the
\* render of an element or the lookup of a Lazy raises
extract(value, ctx) ==
  IF IsBaseElement(value)
  THEN LET r == Call("render", <<value, ctx, NoFragment>>)
       IN [value |-> IF r.exc # NoExc THEN Raised(r.exc) ELSE mark_safe(Text(r.out)),
           log |-> r.log]
  ELSE LET v == resolve_lazy(value, ctx)
       IN [value |-> IF v = None THEN Text(<<>>) ELSE v, log |-> <<>>]

\* [extract(arg) for arg in args] from argument i on: [exc, values, log]
RECURSIVE extract_all(_, _, _)
extract_all(values, i, ctx) ==
  IF i > Len(values) THEN [exc |-> NoExc, values |-> <<>>, log |-> <<>>]
  ELSE LET e == Call("extract", <<values[i], ctx>>)
       IN IF IsRaised(e.value)
          THEN [exc |-> e.value.exc, values |-> <<>>, log |-> e.log]
          ELSE LET rest == extract_all(values, i + 1, ctx)
               IN [exc |-> rest.exc, values |-> <<e.value>> \o rest.values,
                   log |-> e.log \o rest.log]

KeyError(key) == Exc("KeyError", <<"'", key, "'">>)

\* ContextFormatter.get_value(key, args, kwds): every argument is extracted,
\* the one the key names is picked (args[key] for a number, kwds[key] for a
\* name) and goes through conditional_escape: [exc, value, log]
get_value(key, args, kwds, ctx) ==
  LET a == extract_all(args, 1, ctx)
      kw == IF a.exc # NoExc THEN a
            ELSE extract_all([j \in 1..Len(kwds) |-> kwds[j].value], 1, ctx)
      log == IF a.exc # NoExc THEN a.log ELSE a.log \o kw.log
  IN IF a.exc # NoExc THEN [exc |-> a.exc, value |-> None, log |-> log]
     ELSE IF kw.exc # NoExc THEN [exc |-> kw.exc, value |-> None, log |-> log]
     ELSE IF key.k = "int"
     THEN IF key.n + 1 > Len(a.values)
          THEN [exc |-> IndexError, value |-> None, log |-> log]
          ELSE [exc |-> NoExc, value |-> conditional_escape(a.values[key.n + 1]),
                log |-> log]
     ELSE IF \E j \in 1..Len(kwds) : kwds[j].key = key.s
     THEN [exc |-> NoExc,
           value |-> conditional_escape(
                       kw.values[CHOOSE j \in 1..Len(kwds) : kwds[j].key = key.s]),
           log |-> log]
     ELSE [exc |-> KeyError(key.s[1]), value |-> None, log |-> log]

\* the number a field name of digits stands for
FieldIndex(name) == CHOOSE n \in 0..9 : IntStr(n) = name

\* string.Formatter.vformat over the pieces from piece i on, auto being the
\* number the next {} gets: [exc, out, log], out the str pieces joined
vformat(pieces, i, auto, args, kwargs, ctx) ==
  IF i > Len(pieces) THEN [exc |-> NoExc, out |-> <<>>, log |-> <<>>]
  ELSE LET piece == pieces[i]
       IN IF piece.field_name = None
          THEN LET rest == Call("vformat", <<pieces, i + 1, auto, args, kwargs, ctx>>)
               IN [exc |-> rest.exc, out |-> piece.literal_text.s \o rest.out,
                   log |-> rest.log]
          ELSE LET name == piece.field_name.s
                   key == IF name = <<>> THEN PyInt(auto)
                          ELSE IF name[1] \in {"0", "1", "2", "3", "4", "5", "6", "7", "8", "9"}
                          THEN PyInt(FieldIndex(name))
                          ELSE Text(name)
                   obj == Call("get_value", <<key, args, kwargs, ctx>>)
               IN IF obj.exc # NoExc
                  THEN [exc |-> obj.exc, out |-> <<>>, log |-> obj.log]
                  ELSE LET rest == Call("vformat",
                                        <<pieces, i + 1,
                                          IF name = <<>> THEN auto + 1 ELSE auto,
                                          args, kwargs, ctx>>)
                       IN [exc |-> rest.exc,
                           out |-> piece.literal_text.s \o str(obj.value) \o rest.out,
                           log |-> obj.log \o rest.log]

\* ContextFormatter(context).format(format_string, *args, **kwargs): the
\* result is marked safe as a whole
ContextFormatter_format(ctx, args, kwargs) ==
  LET r == Call("vformat", <<ContextFormatter_parse(args[1]), 1, 0, Tail(args), kwargs, ctx>>)
  IN [exc |-> r.exc, value |-> mark_safe(Text(r.out)), log |-> r.log]

\* FormatString.render: an exception of format leaves the generator before
\* _render_element is entered
FormatString_render(self, ctx, stringify, fragment) ==
  LET f == ContextFormatter_format(ctx, self.args, self.kwargs)
  IN IF f.exc # NoExc
     THEN Gen(f.exc, <<>>, ctx, f.log)
     ELSE LET r == Call("render_element", <<f.value, ctx, TRUE, fragment>>)
          IN Gen(r.exc, r.out, r.ctx, f.log \o r.log)

----------------------------------------------------------------------------
Call(f, a) ==
  CASE f = "render_element" -> render_element(a[1], a[2], a[3], a[4])
    [] f = "render_children_from" -> render_children_from(a[1], a[2], a[3], a[4], a[5])
    [] f = "render_children" -> render_children(a[1], a[2], a[3], a[4])
    [] f = "BaseElement_render" -> BaseElement_render(a[1], a[2], a[3], a[4])
    [] f = "If_render" -> If_render(a[1], a[2], a[3], a[4])
    [] f = "Iterator_loop" -> Iterator_loop(a[1], a[2], a[3], a[4], a[5], a[6])
    [] f = "Iterator_render" -> Iterator_render(a[1], a[2], a[3], a[4])
    [] f = "WithContext_render" -> WithContext_render(a[1], a[2], a[3], a[4])
    [] f = "Fragment_render" -> Fragment_render(a[1], a[2], a[3], a[4])
    [] f = "HTMLElement_render" -> HTMLElement_render(a[1], a[2])
    [] f = "VoidElement_render" -> VoidElement_render(a[1], a[2])
    [] f = "call_render" -> call_render(a[1], a[2], a[3], a[4])
    [] f = "call_render_positional" -> call_render_positional(a[1], a[2])
    [] f = "AttrValue" -> AttrValue(a[1], a[2])
    [] f = "flatattrs_loop" -> flatattrs_loop(a[1], a[2], a[3])
    [] f = "flatattrs" -> flatattrs(a[1], a[2])
    [] f = "render" -> render(a[1], a[2], a[3])
    [] f = "extract" -> extract(a[1], a[2])
    [] f = "get_value" -> get_value(a[1], a[2], a[3], a[4])
    [] f = "vformat" -> vformat(a[1], a[2], a[3], a[4], a[5], a[6])
    [] f = "FormatString_render" -> FormatString_render(a[1], a[2], a[3], a[4])

----------------------------------------------------------------------------
(* The program: elements are constructed from the leaves and from the      *)
(* element built before (tree), and the tree is rendered against the       *)
(* caller's context dict.                                                  *)

MaxDepth == 2
MaxItems == 2
MaxRenders == 2

RECURSIVE Depth(_)
RECURSIVE MaxChildDepth(_)
MaxChildDepth(children) ==
  IF children = <<>> THEN 0
  ELSE LET d == Depth(Head(children))
           m == MaxChildDepth(Tail(children))
       IN IF d > m THEN d ELSE m
Depth(v) == IF IsBaseElement(v) THEN 1 + MaxChildDepth(v.ch) ELSE 0

\* range(n)
Range(n) == PyList([j \in 1..n |-> PyInt(j - 1)])

RawText == Text(<<"<", "b", ">", "&", "\"">>)
SafeText == SafeString(<<"<", "i", ">", "&", "\"">>)

Leaves == {RawText, SafeText, C("x"), None}
Conditions == {PyBool(TRUE), PyBool(FALSE), C("c")}
Iterables == {C("count"), C("x")} \cup {Range(n) : n \in 0..MaxItems}
FragmentNames == {Text(<<"red">>), Text(<<"blue">>)}
RenderFragments == {NoFragment, Text(<<"green">>)} \cup FragmentNames

Contexts ==
  { EmptyDict,
    [EmptyDict EXCEPT !["c"] = C("d"), !["d"] = PyBool(TRUE),
                      !["x"] = Text(<<"o", "<">>), !["i"] = Text(<<"z">>),
                      !["count"] = PyList(<<SafeText, PyInt(7)>>)],
    [EmptyDict EXCEPT !["c"] = Text(<<>>), !["x"] = PyInt(10),
                      !["count"] = PyList(<<>>),
                      ![EXCEPTION_HANDLER_NAME] = PyFunc("handler")] }

NotRendered == [k |-> "notrendered"]

\* how many times the tree was rendered
Renders == IF last = NotRendered THEN 0 ELSE last.n

\* no element is on the heap, and html_id was never called
NoHeap == heap = <<>> /\ clone = None /\ html_id_cache = {}

Init ==
  /\ tree = None
  /\ context \in Contexts
  /\ last = NotRendered
  /\ NoHeap

\* a constructor returned e; the tree is composed before its first render
Built(e) ==
  /\ last = NotRendered
  /\ Depth(e) <= MaxDepth
  /\ tree' = e
  /\ last' = NotRendered
  /\ UNCHANGED <<context, heap, clone, html_id_cache>>

\* BaseElement(a, b, c)
NewBaseElement ==
  \E sides \in {<<C("x"), C("x")>>, <<C("i"), C("i_index")>>, <<RawText, None>>},
     b \in Leaves \cup {tree} :
    Built(BaseElement(<<sides[1], b, sides[2]>>))

\* If(cond, a, b) and If(cond, a)
NewIf ==
  \E cond \in Conditions,
     ab \in {<<tree, None>>, <<tree, SafeText>>, <<RawText, tree>>, <<C("x"), None>>} :
    Built(If(cond, ab[1], ab[2]))

\* Iterator(it, "i", content)
NewIterator ==
  \E it \in Iterables, content \in {C("i"), C("i_index"), tree} :
    Built(Iterator(it, "i", content))

\* WithContext(child, x=42)
NewWithContext ==
  \E child \in {C("x"), tree} :
    Built(WithContext(<<child>>, [EmptyDict EXCEPT !["x"] = PyInt(42)]))

\* Fragment(name, child)
NewFragment ==
  \E name \in FragmentNames, child \in {RawText, tree} :
    Built(Fragment(name, <<child>>))

\* DIV(child)
NewHTMLElement ==
  \E child \in {RawText, tree} : Built(HTMLElement(<<"div">>, <<child>>, <<>>))

\* BR()
NewVoidElement == \E tag \in {<<"br">>} : Built(VoidElement(tag, <<>>))

\* render(tree, context, fragment=fragment)
Render ==
  /\ IsBaseElement(tree)
  /\ Renders < MaxRenders
  /\ \E fragment \in RenderFragments :
       LET r == render(tree, context, fragment)
       IN /\ last' = [root |-> tree, basecontext |-> context,
                      fragment |-> fragment, exc |-> r.exc, out |-> r.out,
                      log |-> r.log, n |-> Renders + 1]
          /\ context' = r.ctx
  /\ UNCHANGED <<tree, heap, clone, html_id_cache>>

Next ==
  \/ NewBaseElement
  \/ NewIf
  \/ NewIterator
  \/ NewWithContext
  \/ NewFragment
  \/ NewHTMLElement
  \/ NewVoidElement
  \/ Render

Spec == Init /\ [][Next]_vars

----------------------------------------------------------------------------
(* Text leaves: an element with one text child is rendered. *)

MaxTextLen == 3

Alphabet == {"<", ">", "&", "\"", "a"}
Texts == UNION {[1..m -> Alphabet] : m \in 0..MaxTextLen}
TextLeaves == {Text(s) : s \in Texts} \cup {SafeString(s) : s \in Texts}

InitText ==
  /\ tree \in {BaseElement(<<leaf>>) : leaf \in TextLeaves}
  /\ context = EmptyDict
  /\ last = NotRendered
  /\ NoHeap

NextText == Render

SpecText == InitText /\ [][NextText]_vars

----------------------------------------------------------------------------
(* Attributes: a tag constructed with keyword arguments is rendered by its *)
(* own render method.                                                      *)

MaxAttrs == 3

AttrKeys ==
  { <<"_", "class">>, <<"data", "_", "foo", "_", "bar">>, <<"value">>,
    <<"_", "value">>, <<"_", "_", "a">>, <<"a", "_">>, <<"checked">> }

AttrValues ==
  { None, PyBool(TRUE), PyBool(FALSE), RawText, SafeText, PyInt(1), Text(<<>>),
    C("x"), C("c"),
    If(C("c"), Text(<<"active">>), None),
    If(PyBool(TRUE), PyBool(TRUE), None),
    If(C("c"), PyBool(TRUE), PyBool(FALSE)),
    If(PyBool(TRUE), Text(<<>>), None),
    BaseElement(<<>>),
    BaseElement(<<Text(<<>>)>>),
    BaseElement(<<RawText, C("x")>>),
    HTMLElement(<<"p">>, <<RawText>>, <<>>) }

FlagKeys == {<<"checked">>, <<"value">>, <<"_", "class">>, <<"a", "_", "b">>}
FlagValues == {None, PyBool(TRUE), PyBool(FALSE), PyInt(1)}

Attr(key, value) == [key |-> key, value |-> value]

\* keyword arguments: one of any key and value, or up to MaxAttrs flags
AttrDicts ==
  {<<Attr(key, value)>> : key \in AttrKeys, value \in AttrValues}
  \cup UNION { { [j \in 1..m |-> Attr(ks[j], vs[j])] :
                   ks \in {f \in [1..m -> FlagKeys] :
                             \A p, q \in 1..m : p # q => f[p] # f[q]},
                   vs \in [1..m -> FlagValues] } : m \in 2..MaxAttrs }

InitAttrs ==
  /\ tree \in {HTMLElement(<<"div">>, <<>>, attrs) : attrs \in AttrDicts}
              \cup {VoidElement(<<"br">>, attrs) :
                      attrs \in {a \in AttrDicts : Len(a) = 1} \cup {<<>>}}
  /\ context \in Contexts
  /\ last = NotRendered
  /\ NoHeap

\* "".join(tree.render(context))
RenderMethod ==
  /\ IsHTMLElement(tree)
  /\ Renders < MaxRenders
  /\ LET r == call_render_positional(tree, context)
     IN /\ last' = [root |-> tree, basecontext |-> context,
                    fragment |-> NoFragment, exc |-> r.exc,
                    out |-> IF r.exc = NoExc THEN Join(r.out) ELSE <<>>,
                    log |-> r.log, n |-> Renders + 1]
        /\ context' = r.ctx
  /\ UNCHANGED <<tree, heap, clone, html_id_cache>>

NextAttrs == RenderMethod

SpecAttrs == InitAttrs /\ [][NextAttrs]_vars

----------------------------------------------------------------------------
(* html_id: identifiers are drawn for objects, in one process.             *)

MaxCalls == 4

\* str(hash(str(id(object)))) of the objects html_id is called on: the hash
\* of the first is negative, and without their first characters the first
\* two agree
Objects == {"o1", "o2", "o3"}
HashStr(object) ==
  CASE object = "o1" -> <<"-", "4", "2">>
    [] object = "o2" -> <<"1", "4", "2">>
    [] object = "o3" -> <<"7", "0">>

Prefixes == {<<"i", "d">>, <<"i", "d", "-", "4", "2">>}

\* the while loop of html_id
RECURSIVE html_id_loop(_, _, _, _)
html_id_loop(cache, _id, nid, n) ==
  IF nid \in cache
  THEN html_id_loop(cache, _id, _id \o <<"-">> \o IntStr(n), n + 1)
  ELSE nid

\* html_id without the while loop
html_id_no_loop(cache, object, prefix) ==
  prefix \o <<"-">> \o Tail(HashStr(object))

\* html_id(object, prefix): the identifier returned when html_id_cache is cache
html_id(cache, object, prefix) ==
  LET _id == prefix \o <<"-">> \o Tail(HashStr(object))
  IN html_id_loop(cache, _id, _id, 0)

\* the identifiers html_id returned, in the order of the calls
Returned(ids) == [k |-> "html_id", returned |-> ids]

InitId ==
  /\ tree = None
  /\ context = EmptyDict
  /\ last = Returned(<<>>)
  /\ NoHeap

\* html_id(object, prefix)
HtmlId ==
  /\ Len(last.returned) < MaxCalls
  /\ \E object \in Objects, prefix \in Prefixes :
       LET nid == html_id(html_id_cache, object, prefix)
       IN /\ html_id_cache' = html_id_cache \cup {nid}
          /\ last' = Returned(Append(last.returned, nid))
  /\ UNCHANGED <<tree, context, heap, clone>>

NextId == HtmlId

SpecId == InitId /\ [][NextId]_vars

----------------------------------------------------------------------------
(* Format strings: a FormatString is constructed with a format string, one *)
(* or two positional arguments and, or not, a keyword argument x, and is   *)
(* rendered.                                                               *)

FormatTemplates ==
  { <<"<", "b", ">", "{", "}", "&">>, <<"1", "{", "}">>,
    <<"{", "x", "}", "<", "{", "0", "}">>,
    <<"{", "{", "}", "}", "{", "}", "\"", "{", "}">> }

FormatArgs ==
  { RawText, SafeText, None, PyInt(0), C("x"), C("c"), C("d"), C("count"),
    BaseElement(<<RawText, SafeText>>), If(PyBool(TRUE), RawText, None),
    HTMLElement(<<"div">>, <<RawText>>, <<>>) }

\* contexts with falsy values, with safe and unsafe text, and with an
\* element that a Lazy, and a Lazy behind a Lazy, resolve to
FormatContexts ==
  { EmptyDict,
    [key \in Keys |->
       CASE key = "x" -> PyInt(0) [] key = "c" -> PyBool(FALSE)
         [] key = "d" -> Text(<<>>) [] OTHER -> Absent],
    [key \in Keys |->
       CASE key = "x" -> RawText [] key = "c" -> SafeText
         [] key = "d" -> BaseElement(<<RawText>>) [] key = "count" -> C("d")
         [] OTHER -> Absent] }

InitFormat ==
  /\ tree \in { FormatString(<<fs, arg>> \o more, kwargs) :
                  fs \in {Text(t) : t \in FormatTemplates}
                         \cup {SafeString(t) : t \in FormatTemplates},
                  arg \in FormatArgs,
                  more \in {<<>>, <<C("x")>>},
                  kwargs \in {<<>>, <<Attr(<<"x">>, RawText)>>} }
  /\ context \in FormatContexts
  /\ last = NotRendered
  /\ NoHeap

NextFormat == Render

SpecFormat == InitFormat /\ [][NextFormat]_vars

----------------------------------------------------------------------------
(* merge_html_attrs.  A dict of attributes is the sequence of its items in *)
(* insertion order; the keys are written character by character; a dict   *)
(* of separators is a function from the keys, Absent where it has none.    *)

PyDict(items) == [k |-> "dict", items |-> items]

Letters == {"a", "c", "d", "e", "i", "k", "l", "n", "o", "s", "t", "y"}
Capitals == {"C"}

\* key.startswith("on")
StartsWithOn(key) == Len(key) >= 2 /\ key[1] = "o" /\ key[2] = "n"
\* key.islower(): no cased character is a capital, and one is cased at least
IsLower(key) ==
  /\ \A j \in 1..Len(key) : key[j] \notin Capitals
  /\ \E j \in 1..Len(key) : key[j] \in Letters
\* key.isalpha()
IsAlpha(key) == key # <<>> /\ \A j \in 1..Len(key) : key[j] \in Letters \cup Capitals

\* guess_separator(key)
guess_separator(key) ==
  IF key = <<"_", "c", "l", "a", "s", "s">> THEN Text(<<" ">>)
  ELSE IF key = <<"s", "t", "y", "l", "e">> THEN Text(<<";">>)
  ELSE IF StartsWithOn(key) /\ IsLower(key) /\ IsAlpha(key) THEN Text(<<";">>)
  ELSE Text(<<" ">>)

\* _append_attribute(attrs, key, value, separator): attrs after the call,
\* which is also what is returned
append_attribute(attrs, key, value, separator) ==
  IF \E j \in 1..Len(attrs) : attrs[j].key = key
  THEN [j \in 1..Len(attrs) |->
          IF attrs[j].key = key
          THEN Attr(key, BaseElement(<<attrs[j].value,
                                       IF Truthy(separator) THEN separator
                                       ELSE guess_separator(key),
                                       value>>))
          ELSE attrs[j]]
  ELSE Append(attrs, Attr(key, value))

\* separators.get(key)
SeparatorsGet(separators, key) ==
  IF separators.items[key] = Absent THEN None ELSE separators.items[key]

\* the for loop of merge_html_attrs from item i of newattrs on
RECURSIVE merge_loop(_, _, _, _)
merge_loop(ret, newattrs, i, separators) ==
  IF i > Len(newattrs) THEN ret
  ELSE merge_loop(append_attribute(ret, newattrs[i].key, newattrs[i].value,
                                   SeparatorsGet(separators, newattrs[i].key)),
                  newattrs, i + 1, separators)

MergeKeys ==
  { <<"_", "c", "l", "a", "s", "s">>, <<"s", "t", "y", "l", "e">>,
    <<"o", "n", "c", "l", "i", "c", "k">>, <<"o", "n", "C", "l", "i", "c", "k">>,
    <<"o", "n", "_", "d">>, <<"o", "n">>, <<"i", "d">> }

NoSeparators == PyDict([key \in MergeKeys |-> Absent])

\* merge_html_attrs(attrs, newattrs, separators): the dict returned, which
\* is attrs itself, changed in place, when neither dict is None
merge_html_attrs(attrs, newattrs, separators) ==
  IF attrs = None THEN newattrs
  ELSE IF newattrs = None THEN attrs
  ELSE PyDict(merge_loop(attrs.items, newattrs.items, 1,
                         IF separators = None \/ separators = NoSeparators
                         THEN NoSeparators ELSE separators))

\* the dicts passed: one or two attributes on each side
BaseAttrs ==
  {None, PyDict(<<>>)}
  \cup {PyDict(<<Attr(key, value)>>) :
          key \in MergeKeys, value \in {Text(<<"a">>), PyInt(1)}}
  \cup {PyDict(<<Attr(<<"i", "d">>, Text(<<"x">>)), Attr(key, Text(<<"a">>))>>) :
          key \in MergeKeys \ {<<"i", "d">>}}
NewAttrs ==
  {None, PyDict(<<>>)}
  \cup {PyDict(<<Attr(key, Text(<<"b">>))>>) : key \in MergeKeys}
  \cup {PyDict(<<Attr(key, Text(<<"b">>)), Attr(<<"i", "d">>, PyInt(2))>>) :
          key \in MergeKeys \ {<<"i", "d">>}}
Separators ==
  {None, NoSeparators}
  \cup {PyDict([other \in MergeKeys |-> IF other = key THEN Text(sep) ELSE Absent]) :
          key \in MergeKeys, sep \in {<<>>, <<",">>}}

InitMerge ==
  /\ tree = None
  /\ context = EmptyDict
  /\ \E attrs \in BaseAttrs, newattrs \in NewAttrs, separators \in Separators :
       last = [k |-> "merge", attrs |-> attrs, newattrs |-> newattrs,
               separators |-> separators, called |-> FALSE]
  /\ NoHeap

\* ret = merge_html_attrs(attrs, newattrs, separators)
MergeHtmlAttrs ==
  /\ ~last.called
  /\ last' = [k |-> "merge", attrs |-> last.attrs, newattrs |-> last.newattrs,
              separators |-> last.separators, called |-> TRUE,
              ret |-> merge_html_attrs(last.attrs, last.newattrs, last.separators)]
  /\ UNCHANGED <<tree, context, heap, clone, html_id_cache>>

NextMerge == MergeHtmlAttrs

SpecMerge == InitMerge /\ [][NextMerge]_vars

----------------------------------------------------------------------------
(* resolve_lookup over a dotted lookup.  The lookup is the sequence of its *)
(* characters, and so is a key or an attribute name.  An object carries    *)
(* the items its __getitem__ answers (a dict, or a subclass of dict) and   *)
(* the attributes dir() lists; an attribute is a plain value, a property   *)
(* whose getter raises, or a callable.                                     *)

\* an instance: of dict or a subclass of it when isdict, else of a class
\* without __getitem__
PyObject(isdict, items, attrs) ==
  [k |-> "object", isdict |-> isdict, items |-> items, attrs |-> attrs]
\* a property whose getter raises exc
Property(exc) == [k |-> "property", raises |-> exc]
\* a callable with that many required parameters, whose call without
\* arguments gives result; inspect.signature finds a signature for it or not
PyCallable(required, signature, result) ==
  [k |-> "callable", required |-> required, signature |-> signature,
   result |-> result]

Digits == {"0", "1", "2"}
DigitValue(c) == CASE c = "0" -> 0 [] c = "1" -> 1 [] c = "2" -> 2

\* int(bit): the number written in decimal digits, else ValueError
RECURSIVE DecimalValue(_)
DecimalValue(bit) ==
  IF bit = <<>> THEN 0
  ELSE 10 * DecimalValue(SubSeq(bit, 1, Len(bit) - 1)) + DigitValue(bit[Len(bit)])
int(bit) ==
  IF bit # <<>> /\ \A j \in 1..Len(bit) : bit[j] \in Digits
  THEN PyInt(DecimalValue(bit))
  ELSE Raised(Exc("ValueError", <<"invalid literal for int()">>))

\* lookup.split("."): the bits from character i on, bit being the one begun
RECURSIVE split(_, _, _)
split(lookup, i, bit) ==
  IF i > Len(lookup) THEN <<bit>>
  ELSE IF lookup[i] = "." THEN <<bit>> \o split(lookup, i + 1, <<>>)
  ELSE split(lookup, i + 1, Append(bit, lookup[i]))

\* current[bit] for the str bit
Subscript(current, bit) ==
  IF current.k = "object" /\ current.isdict
  THEN IF \E j \in 1..Len(current.items) : current.items[j].key = bit
       THEN LET j == CHOOSE j \in 1..Len(current.items) : current.items[j].key = bit
            IN current.items[j].value
       ELSE Raised(KeyError(bit))
  ELSE IF current.k \in {"list", "str"}
  THEN Raised(Exc("TypeError", <<"indices must be integers">>))
  ELSE Raised(Exc("TypeError", <<"object is not subscriptable">>))

\* bit in dir(current)
InDir(current, bit) ==
  current.k = "object" /\ \E j \in 1..Len(current.attrs) : current.attrs[j].key = bit

\* getattr(current, bit): the getter of a property runs
GetAttr(current, bit) ==
  IF InDir(current, bit)
  THEN LET j == CHOOSE j \in 1..Len(current.attrs) : current.attrs[j].key = bit
           member == current.attrs[j].value
       IN IF member.k = "property" THEN Raised(member.raises) ELSE member
  ELSE Raised(Exc("AttributeError", <<"object has no attribute">>))

\* current[n] for the int n
Index(current, n) ==
  IF current.k = "object" /\ current.isdict
  THEN Raised(Exc("KeyError", <<"int">>))
  ELSE IF current.k = "list"
  THEN IF n < Len(current.items) THEN current.items[n + 1]
       ELSE Raised(Exc("IndexError", <<"list index out of range">>))
  ELSE IF current.k = "str"
  THEN IF n < Len(current.s) THEN Text(<<current.s[n + 1]>>)
       ELSE Raised(Exc("IndexError", <<"string index out of range">>))
  ELSE Raised(Exc("TypeError", <<"object is not subscriptable">>))

\* the return statement of line 46, which ends the lookup
Return(value) == [k |-> "return", value |-> value]

\* lines 29-49: the three accesses for one bit
LookupBit(current, bit) ==
  LET item == Subscript(current, bit)
      attr == GetAttr(current, bit)
      n == int(bit)
  IN IF ~IsRaised(item) THEN item
     ELSE IF item.exc.type \notin
               {"TypeError", "AttributeError", "KeyError", "ValueError", "IndexError"}
     THEN item
     ELSE IF ~IsRaised(attr) THEN attr
     ELSE IF attr.exc.type \notin {"TypeError", "AttributeError"} THEN attr
     ELSE IF ~(current.k = "object" /\ current.isdict) /\ InDir(current, bit)
     THEN attr
     ELSE IF IsRaised(n) THEN Return(None)
     ELSE IF IsRaised(Index(current, n.n)) THEN Return(None)
     ELSE Index(current, n.n)

\* callable(current)
callable(current) == current.k = "callable"

\* lines 50-62: the call without arguments, the signature asked when the
\* call raised TypeError
CallBit(current, call_functions) ==
  IF ~(callable(current) /\ call_functions) THEN current
  ELSE LET called ==
             IF current.required > 0
             THEN Raised(Exc("TypeError", <<"missing required positional argument">>))
             ELSE current.result
       IN IF ~IsRaised(called) THEN called
          ELSE IF called.exc.type # "TypeError" THEN called
          ELSE IF ~current.signature
          THEN Raised(Exc("ValueError", <<"no signature found">>))
          ELSE IF current.required > 0 THEN current
          ELSE called

\* the for loop of resolve_lookup from bit i on
RECURSIVE lookup_loop(_, _, _, _)
lookup_loop(current, bits, i, call_functions) ==
  IF i > Len(bits) THEN current
  ELSE LET found == LookupBit(current, bits[i])
       IN IF IsRaised(found) THEN found
          ELSE IF found.k = "return" THEN found.value
          ELSE LET next == CallBit(found, call_functions)
               IN IF IsRaised(next) THEN next
                  ELSE lookup_loop(next, bits, i + 1, call_functions)

\* resolve_lookup(context, lookup, call_functions) for any lookup and any
\* context: the value returned, or Raised(exc) for the exception that leaves
resolve_lookup_dotted(ctx, lookup, call_functions) ==
  lookup_loop(ctx, split(lookup, 1, <<>>), 1, call_functions)

\* ContextValue(value).resolve(context) for a str value
ContextValue_resolve(value, ctx) == resolve_lookup_dotted(ctx, value, TRUE)

Boom(type) == Exc(type, <<"boom">>)

\* what an attribute b, a key b or a list item is in the contexts
Members ==
  {PyInt(1), None, Text(<<"x", "y">>),
   PyCallable(0, TRUE, PyInt(2)),
   PyCallable(0, FALSE, PyInt(0)),
   PyCallable(0, TRUE, Raised(Boom("TypeError"))),
   PyCallable(0, TRUE, Raised(Boom("ValueError"))),
   PyCallable(1, TRUE, None),
   PyCallable(1, FALSE, None),
   PyList(<<PyInt(4), PyObject(TRUE, <<Attr(<<"b">>, PyInt(5))>>, <<>>)>>),
   PyObject(TRUE, <<Attr(<<"b">>, PyInt(6)), Attr(<<"0">>, PyInt(7))>>, <<>>),
   PyObject(FALSE, <<>>, <<Attr(<<"b">>, PyCallable(0, TRUE, PyInt(8)))>>)}
Properties ==
  {Property(Boom(type)) :
     type \in {"AttributeError", "TypeError", "KeyError", "ValueError"}}

\* the values under the key a of the context
Roots ==
  Members
  \cup {PyObject(FALSE, <<>>, <<Attr(<<"b">>, m)>>) : m \in Members \cup Properties}
  \cup {PyObject(TRUE, <<Attr(<<"c">>, PyInt(9))>>, <<Attr(<<"b">>, m)>>) :
          m \in Members \cup Properties}
  \cup {PyObject(TRUE, <<Attr(<<"b">>, m)>>, <<>>) : m \in Members}
  \cup {PyList(<<PyInt(0), m>>) : m \in Members}

LookupContexts == {PyObject(TRUE, <<Attr(<<"a">>, root)>>, <<>>) : root \in Roots}

Lookups ==
  { <<>>, <<"a">>, <<"b">>, <<"a", ".", "b">>, <<"a", ".", "c">>,
    <<"a", ".", "0">>, <<"a", ".", "1">>, <<"a", ".", "0", "1">>,
    <<"a", ".", "2">>, <<"a", ".", "b", ".", "b">>, <<"a", ".", "b", ".", "0">>,
    <<"a", ".", "b", ".", "1", ".", "b">>, <<"a", ".", "1", ".", "b">>,
    <<"a", ".", "c", ".", "b">>, <<"a", ".", ".", "b">>, <<"b", ".", "a">> }

InitLookup ==
  /\ tree = None
  /\ context = EmptyDict
  /\ \E ctx \in LookupContexts, lookup \in Lookups :
       last = [k |-> "lookup", context |-> ctx, lookup |-> lookup,
               resolved |-> FALSE]
  /\ NoHeap

\* value = C(lookup).resolve(context)
ResolveLookup ==
  /\ ~last.resolved
  /\ last' = [k |-> "lookup", context |-> last.context, lookup |-> last.lookup,
              resolved |-> TRUE,
              value |-> ContextValue_resolve(last.lookup, last.context)]
  /\ UNCHANGED <<tree, context, heap, clone, html_id_cache>>

NextLookup == ResolveLookup

SpecLookup == InitLookup /\ [][NextLookup]_vars

----------------------------------------------------------------------------
(* html_id called from several threads.  Nothing guards html_id_cache, so  *)
(* a thread may be suspended between any two statements of html_id: the    *)
(* membership test of the while loop and the add are steps of their own,   *)
(* each atomic as the set operations are.                                  *)

MaxThreadCalls == 3

Threads == {"t1", "t2"}

\* a thread outside html_id
Idle == [pc |-> "idle"]

\* the calls that were started
Started == last.started

InitThreads ==
  /\ tree = None
  /\ context = EmptyDict
  /\ last = [k |-> "threads", frame |-> [t \in Threads |-> Idle],
             returned |-> <<>>, started |-> 0]
  /\ NoHeap

\* thread t calls html_id(object, prefix): _id is computed, n = 0, nid = _id
HtmlIdCall(t) ==
  /\ last.frame[t].pc = "idle"
  /\ Started < MaxThreadCalls
  /\ \E object \in Objects, prefix \in Prefixes :
       LET _id == prefix \o <<"-">> \o Tail(HashStr(object))
       IN last' = [last EXCEPT !.started = @ + 1,
                               !.frame[t] = [pc |-> "while", _id |-> _id,
                                             nid |-> _id, n |-> 0]]
  /\ UNCHANGED <<tree, context, heap, clone, html_id_cache>>

\* while nid in html_id_cache: nid = f"{_id}-{n}"; n += 1
HtmlIdWhile(t) ==
  /\ last.frame[t].pc = "while"
  /\ LET f == last.frame[t]
     IN last' = [last EXCEPT !.frame[t] =
                   IF f.nid \in html_id_cache
                   THEN [f EXCEPT !.nid = f._id \o <<"-">> \o IntStr(f.n),
                                  !.n = f.n + 1]
                   ELSE [f EXCEPT !.pc = "add"]]
  /\ UNCHANGED <<tree, context, heap, clone, html_id_cache>>

\* html_id_cache.add(nid)
HtmlIdAdd(t) ==
  /\ last.frame[t].pc = "add"
  /\ html_id_cache' = html_id_cache \cup {last.frame[t].nid}
  /\ last' = [last EXCEPT !.frame[t].pc = "return"]
  /\ UNCHANGED <<tree, context, heap, clone>>

\* return nid
HtmlIdReturn(t) ==
  /\ last.frame[t].pc = "return"
  /\ last' = [last EXCEPT !.returned = Append(@, last.frame[t].nid),
                          !.frame[t] = Idle]
  /\ UNCHANGED <<tree, context, heap, clone, html_id_cache>>

NextThreads ==
  \E t \in Threads :
    \/ HtmlIdCall(t)
    \/ HtmlIdWhile(t)
    \/ HtmlIdAdd(t)
    \/ HtmlIdReturn(t)

SpecThreads == InitThreads /\ [][NextThreads]_vars

----------------------------------------------------------------------------
(* Objects.  The tree functions change elements in place, so here the      *)
(* elements and the Lazy objects are objects on the heap: an object is its *)
(* index in heap, and a child or an attribute value that is an object is a *)
(* reference to it.  str, None and numbers are immutable and stay values.  *)

Ref(id) == [k |-> "ref", id |-> id]
IsRef(v) == v.k = "ref"

\* isinstance(e, BaseElement) and isinstance(e, HTMLElement)
IsElementRef(h, v) == IsRef(v) /\ h[v.id].k = "elem"
IsTagRef(h, v) == IsRef(v) /\ IsHTMLElement(h[v.id])

\* a new object
New(h, obj) == [heap |-> Append(h, obj), ref |-> Ref(Len(h) + 1)]

\* list(x) of an element or of a list object
ItemsOf(h, x) == IF h[x.id].k = "list" THEN h[x.id].items ELSE h[x.id].ch
SetItems(h, x, items) ==
  IF h[x.id].k = "list"
  THEN [h EXCEPT ![x.id].items = items]
  ELSE [h EXCEPT ![x.id].ch = items]

\* e.attributes.values()
AttributeValues(h, e) ==
  [j \in 1..Len(h[e.id].attributes) |-> h[e.id].attributes[j].value]

RECURSIVE TreeCall(_, _)

\* the constructors' results as objects: the element v with its children,
\* attribute values and Lazy objects, each a new object
AllocSeq(h, vs) ==
  IF vs = <<>> THEN [heap |-> h, refs |-> <<>>]
  ELSE LET a == TreeCall("Alloc", <<h, Head(vs)>>)
           rest == TreeCall("AllocSeq", <<a.heap, Tail(vs)>>)
       IN [heap |-> rest.heap, refs |-> <<a.ref>> \o rest.refs]

Alloc(h, v) ==
  IF IsLazy(v) THEN New(h, v)
  ELSE IF ~IsBaseElement(v) THEN [heap |-> h, ref |-> v]
  ELSE LET ch == TreeCall("AllocSeq", <<h, v.ch>>)
       IN IF ~IsHTMLElement(v) THEN New(ch.heap, [v EXCEPT !.ch = ch.refs])
          ELSE LET values == [j \in 1..Len(v.attributes) |-> v.attributes[j].value]
                   at == TreeCall("AllocSeq", <<ch.heap, values>>)
               IN New(at.heap,
                      [v EXCEPT !.ch = ch.refs,
                                !.attributes =
                                  [j \in 1..Len(v.attributes) |->
                                     [key |-> v.attributes[j].key,
                                      value |-> at.refs[j]]]])

\* the tree below v, as the value the constructors would have returned
RECURSIVE Deheap(_, _)
Deheap(h, v) ==
  IF ~IsRef(v) THEN v
  ELSE LET obj == h[v.id]
       IN IF obj.k # "elem" THEN obj
          ELSE LET ch == [j \in 1..Len(obj.ch) |-> Deheap(h, obj.ch[j])]
               IN IF ~IsHTMLElement(obj) THEN [obj EXCEPT !.ch = ch]
                  ELSE [obj EXCEPT !.ch = ch,
                                   !.attributes =
                                     [j \in 1..Len(obj.attributes) |->
                                        [key |-> obj.attributes[j].key,
                                         value |-> Deheap(h, obj.attributes[j].value)]]]

\* a == b.  An element is a list and list.__eq__ compares the items only,
\* taking the same object as equal to itself; a Lazy has object.__eq__
RECURSIVE Eq(_, _, _)
Eq(h, a, b) ==
  IF IsRef(a) /\ IsRef(b)
  THEN \/ a.id = b.id
       \/ /\ h[a.id].k = "elem" /\ h[b.id].k = "elem"
          /\ Len(h[a.id].ch) = Len(h[b.id].ch)
          /\ \A j \in 1..Len(h[a.id].ch) : Eq(h, h[a.id].ch[j], h[b.id].ch[j])
  ELSE IF IsRef(a) \/ IsRef(b) THEN FALSE
  ELSE IF a.k = "str" /\ b.k = "str" THEN a.s = b.s
  ELSE a = b

\* copy.deepcopy of a value that is no object: of a Lazy (see DeepcopyOfLazy)
\* and of str, None, numbers and lists of them
DeepcopyValue(v) == IF IsLazy(v) THEN DeepcopyOfLazy(v) ELSE v

\* copy.deepcopy of the __dict__ of an element, but for its attributes
DeepcopyState(obj) ==
  [f \in DOMAIN obj |->
     CASE f = "condition" -> DeepcopyValue(obj[f])
       [] f = "iterator" -> DeepcopyValue(obj[f])
       [] f = "additional_context" ->
            [key \in DOMAIN obj[f] |-> DeepcopyValue(obj[f][key])]
       [] OTHER -> obj[f]]

\* copy.deepcopy(v, memo): memo[id] is the copy of object id, 0 before there
\* is one.  _reconstruct puts the new element in memo, then copies its
\* state, then its items
DeepcopySeq(h, vs, memo) ==
  IF vs = <<>> THEN [heap |-> h, refs |-> <<>>, memo |-> memo]
  ELSE LET a == TreeCall("deepcopy", <<h, Head(vs), memo>>)
           rest == TreeCall("DeepcopySeq", <<a.heap, Tail(vs), a.memo>>)
       IN [heap |-> rest.heap, refs |-> <<a.ref>> \o rest.refs, memo |-> rest.memo]

deepcopy(h, v, memo) ==
  IF ~IsRef(v) THEN [heap |-> h, ref |-> DeepcopyValue(v), memo |-> memo]
  ELSE IF memo[v.id] # 0 THEN [heap |-> h, ref |-> Ref(memo[v.id]), memo |-> memo]
  ELSE LET obj == h[v.id]
           y == Len(h) + 1
           memo1 == [memo EXCEPT ![v.id] = y]
       IN IF obj.k = "lazy"
          THEN [heap |-> Append(h, DeepcopyOfLazy(obj)), ref |-> Ref(y), memo |-> memo1]
          ELSE LET h1 == Append(h, DeepcopyState(obj))
                   at == IF IsHTMLElement(obj)
                         THEN TreeCall("DeepcopySeq", <<h1, AttributeValues(h, v), memo1>>)
                         ELSE [heap |-> h1, refs |-> <<>>, memo |-> memo1]
                   ch == TreeCall("DeepcopySeq", <<at.heap, obj.ch, at.memo>>)
                   copied == IF IsHTMLElement(obj)
                             THEN [ch.heap[y] EXCEPT
                                     !.ch = ch.refs,
                                     !.attributes =
                                       [j \in 1..Len(obj.attributes) |->
                                          [key |-> obj.attributes[j].key,
                                           value |-> at.refs[j]]]]
                             ELSE [ch.heap[y] EXCEPT !.ch = ch.refs]
               IN [heap |-> [ch.heap EXCEPT ![y] = copied], ref |-> Ref(y),
                   memo |-> ch.memo]

\* BaseElement.copy
BaseElement_copy(h, self) == TreeCall("deepcopy", <<h, self, [id \in 1..Len(h) |-> 0]>>)

\* the callers' filter_func and select_func: (element, ancestors) => bool
FilterFuncs == {"is_span", "is_div", "any", "in_span", "is_root"}
TagIs(h, e, tag) == IsTagRef(h, e) /\ h[e.id].tag = tag
filter_func(name, h, e, ancestors) ==
  CASE name = "is_span" -> TagIs(h, e, <<"span">>)
    [] name = "is_div" -> TagIs(h, e, <<"div">>)
    [] name = "any" -> TRUE
    [] name = "in_span" ->
         ancestors # <<>> /\ TagIs(h, ancestors[Len(ancestors)], <<"span">>)
    [] name = "is_root" -> ancestors = <<>>

\* what a walk did: the heap after it, the elements it yielded, the calls of
\* filter_func it made, and the exception that ended it
Walked(h, out, calls, exc) == [heap |-> h, out |-> out, calls |-> calls, exc |-> exc]

ValueError == Exc("ValueError", <<"list.remove(x): x not in list">>)

PopIndexError == Exc("IndexError", <<"pop index out of range">>)
ReachFirstException == Exc("ReachFirstException", <<>>)

\* x without its item at position i, and x with v before position i
RemoveAt(x, i) == [j \in 1..(Len(x) - 1) |-> IF j < i THEN x[j] ELSE x[j + 1]]
InsertAt(x, i, v) ==
  [j \in 1..(Len(x) + 1) |-> IF j < i THEN x[j] ELSE IF j = i THEN v ELSE x[j - 1]]

\* container.remove(e): the first item that is e or equal to e goes
RECURSIVE IndexOf(_, _, _, _)
IndexOf(h, items, e, j) ==
  IF j > Len(items) THEN 0
  ELSE IF Eq(h, items[j], e) THEN j
  ELSE IndexOf(h, items, e, j + 1)

\* delfunc of BaseElement.delete (positions count from 1 here)
delfunc(h, container, i, e) ==
  LET items == ItemsOf(h, container)
      j == IndexOf(h, items, e, 1)
  IN IF j = 0 THEN [heap |-> h, exc |-> ValueError]
     ELSE [heap |-> SetItems(h, container, RemoveAt(items, j)), exc |-> NoExc]

\* wrappingfunc of BaseElement.wrap
wrappingfunc(h, container, i, e, wrapperelement) ==
  LET c == BaseElement_copy(h, wrapperelement)
      items == ItemsOf(c.heap, container)
  IN IF i > Len(items) THEN [heap |-> c.heap, exc |-> IndexError]
     ELSE LET h1 == SetItems(c.heap, c.ref, Append(ItemsOf(c.heap, c.ref), items[i]))
          IN [heap |-> SetItems(h1, container, [items EXCEPT ![i] = c.ref]),
              exc |-> NoExc]

\* apply(element, i, e): apply is None for filter
Apply(apply, h, container, i, e, wrapperelement) ==
  CASE apply = "delfunc" -> delfunc(h, container, i, e)
    [] apply = "wrappingfunc" -> wrappingfunc(h, container, i, e, wrapperelement)

\* the second loop of treewalk, from the k-th of matchelements on
RECURSIVE treewalk_apply(_, _, _, _, _, _)
treewalk_apply(h, element, matchelements, k, apply, wrapperelement) ==
  IF k > Len(matchelements) THEN [heap |-> h, exc |-> NoExc]
  ELSE LET r == Apply(apply, h, element, matchelements[k].i, matchelements[k].e,
                      wrapperelement)
       IN IF r.exc # NoExc THEN r
          ELSE treewalk_apply(r.heap, element, matchelements, k + 1, apply,
                              wrapperelement)

\* the first loop of treewalk over items = list(element), from item i on;
\* match is what it appends to matchelements
treewalk_loop(h, items, i, ancestors, ff, apply, wrapperelement) ==
  IF i > Len(items)
  THEN [heap |-> h, out |-> <<>>, calls |-> <<>>, exc |-> NoExc, match |-> <<>>]
  ELSE IF ~IsElementRef(h, items[i])
  THEN TreeCall("treewalk_loop", <<h, items, i + 1, ancestors, ff, apply, wrapperelement>>)
  ELSE LET e == items[i]
           hit == filter_func(ff, h, e, ancestors)
           path == Append(ancestors, e)
           at == IF IsTagRef(h, e)
                 THEN LET tmp == New(h, BaseElement(AttributeValues(h, e)))
                      IN TreeCall("treewalk",
                                  <<tmp.heap, tmp.ref, path, ff, apply, wrapperelement>>)
                 ELSE Walked(h, <<>>, <<>>, NoExc)
           below == IF at.exc # NoExc THEN Walked(at.heap, <<>>, <<>>, at.exc)
                    ELSE TreeCall("treewalk",
                                  <<at.heap, e, path, ff, apply, wrapperelement>>)
           rest == IF below.exc # NoExc
                   THEN [heap |-> below.heap, out |-> <<>>, calls |-> <<>>,
                         exc |-> below.exc, match |-> <<>>]
                   ELSE TreeCall("treewalk_loop",
                                 <<below.heap, items, i + 1, ancestors, ff, apply,
                                   wrapperelement>>)
       IN [heap |-> rest.heap,
           out |-> (IF hit THEN <<e>> ELSE <<>>) \o at.out \o below.out \o rest.out,
           calls |-> <<[e |-> e, ancestors |-> ancestors]>> \o at.calls
                       \o below.calls \o rest.calls,
           exc |-> rest.exc,
           match |-> (IF hit THEN <<[i |-> i, e |-> e]>> ELSE <<>>) \o rest.match]

\* treewalk(element, ancestors, filter_func, apply), run to its end
treewalk(h, element, ancestors, ff, apply, wrapperelement) ==
  LET loop == TreeCall("treewalk_loop",
                       <<h, ItemsOf(h, element), 1, ancestors, ff, apply, wrapperelement>>)
  IN IF loop.exc # NoExc \/ apply = "None"
     THEN Walked(loop.heap, loop.out, loop.calls, loop.exc)
     ELSE LET r == treewalk_apply(loop.heap, element, loop.match, 1, apply,
                                  wrapperelement)
          IN Walked(r.heap, loop.out, loop.calls, r.exc)

\* filter that walks the children of self only
BaseElement_filter_children(h, self, ff) ==
  TreeCall("treewalk", <<h, self, <<self>>, ff, "None", None>>)

\* BaseElement.filter, its generator run to the end
BaseElement_filter(h, self, ff) ==
  LET tmp == New(h, BaseElement(<<self>>))
  IN TreeCall("treewalk", <<tmp.heap, tmp.ref, <<>>, ff, "None", None>>)

\* BaseElement.wrap
BaseElement_wrap(h, self, ff, wrapperelement) ==
  LET tmp == New(h, BaseElement(<<self>>))
  IN TreeCall("treewalk", <<tmp.heap, tmp.ref, <<>>, ff, "wrappingfunc", wrapperelement>>)

\* BaseElement.delete
BaseElement_delete(h, self, ff) ==
  LET tmp == New(h, BaseElement(<<self>>))
  IN TreeCall("treewalk", <<tmp.heap, tmp.ref, <<>>, ff, "delfunc", None>>)

\* the second loop of walk in _replace, from the k-th index on
RECURSIVE walk_replace(_, _, _, _, _, _)
walk_replace(h, element, replacment_indices, k, replacement, all) ==
  IF k > Len(replacment_indices) THEN [heap |-> h, exc |-> NoExc]
  ELSE LET i == replacment_indices[k]
           items == ItemsOf(h, element)
       IN IF i > Len(items) THEN [heap |-> h, exc |-> PopIndexError]
          ELSE LET popped == RemoveAt(items, i)
                   h1 == SetItems(h, element,
                                  IF replacement # None
                                  THEN InsertAt(popped, i, replacement)
                                  ELSE popped)
               IN IF ~all THEN [heap |-> h1, exc |-> ReachFirstException]
                  ELSE walk_replace(h1, element, replacment_indices, k + 1,
                                    replacement, all)

\* the first loop of walk, over the items of element as they are, from item
\* i on; idx is what it appends to replacment_indices
walk_loop(h, element, i, ancestors, sf, replacement, all) ==
  IF i > Len(ItemsOf(h, element))
  THEN [heap |-> h, calls |-> <<>>, exc |-> NoExc, idx |-> <<>>]
  ELSE IF ~IsElementRef(h, ItemsOf(h, element)[i])
  THEN TreeCall("walk_loop", <<h, element, i + 1, ancestors, sf, replacement, all>>)
  ELSE LET e == ItemsOf(h, element)[i]
           hit == filter_func(sf, h, e, ancestors)
           path == Append(ancestors, e)
           at == IF IsTagRef(h, e)
                 THEN LET tmp == New(h, PyList(AttributeValues(h, e)))
                      IN TreeCall("walk", <<tmp.heap, tmp.ref, path, sf, replacement, all>>)
                 ELSE [heap |-> h, calls |-> <<>>, exc |-> NoExc]
           below == IF at.exc # NoExc
                    THEN [heap |-> at.heap, calls |-> <<>>, exc |-> at.exc]
                    ELSE TreeCall("walk", <<at.heap, e, path, sf, replacement, all>>)
           rest == IF below.exc # NoExc
                   THEN [heap |-> below.heap, calls |-> <<>>, exc |-> below.exc,
                         idx |-> <<>>]
                   ELSE TreeCall("walk_loop",
                                 <<below.heap, element, i + 1, ancestors, sf,
                                   replacement, all>>)
       IN [heap |-> rest.heap,
           calls |-> <<[e |-> e, ancestors |-> ancestors]>> \o at.calls
                       \o below.calls \o rest.calls,
           exc |-> rest.exc,
           idx |-> (IF hit THEN <<i>> ELSE <<>>) \o rest.idx]

\* walk(element, ancestors) of _replace
walk(h, element, ancestors, sf, replacement, all) ==
  LET loop == TreeCall("walk_loop", <<h, element, 1, ancestors, sf, replacement, all>>)
  IN IF loop.exc # NoExc THEN [heap |-> loop.heap, calls |-> loop.calls, exc |-> loop.exc]
     ELSE LET r == walk_replace(loop.heap, element, loop.idx, 1, replacement, all)
          IN [heap |-> r.heap, calls |-> loop.calls, exc |-> r.exc]

\* BaseElement.replace
BaseElement_replace(h, self, sf, replacement, all) ==
  LET r == TreeCall("walk", <<h, self, <<self>>, sf, replacement, all>>)
  IN [heap |-> r.heap, calls |-> r.calls,
      exc |-> IF r.exc = ReachFirstException THEN NoExc ELSE r.exc]

TreeCall(f, a) ==
  CASE f = "Alloc" -> Alloc(a[1], a[2])
    [] f = "AllocSeq" -> AllocSeq(a[1], a[2])
    [] f = "deepcopy" -> deepcopy(a[1], a[2], a[3])
    [] f = "DeepcopySeq" -> DeepcopySeq(a[1], a[2], a[3])
    [] f = "treewalk_loop" -> treewalk_loop(a[1], a[2], a[3], a[4], a[5], a[6], a[7])
    [] f = "treewalk" -> treewalk(a[1], a[2], a[3], a[4], a[5], a[6])
    [] f = "walk_loop" -> walk_loop(a[1], a[2], a[3], a[4], a[5], a[6], a[7])
    [] f = "walk" -> walk(a[1], a[2], a[3], a[4], a[5], a[6])

----------------------------------------------------------------------------
(* Tree functions: a tree is constructed, then filtered, changed, copied    *)
(* and rendered.  tree and clone are references to the roots.               *)

MaxOps == 2

\* HTMLElement.__init__(self, *children, **attributes) of a class with tag
HTMLElement_init(tag, children, attributes) ==
  IF tag = <<>> THEN Raised(Exc("AssertionError", <<>>))
  ELSE HTMLElement(tag, children, attributes)

\* VoidElement.__init__(self, **kwargs), called with the positional args
VoidElement_init(tag, args, kwargs) ==
  IF args # <<>>
  THEN Raised(Exc("TypeError",
                  <<"VoidElement.__init__() takes 1 positional argument but ">>
                  \o IntStr(1 + Len(args)) \o <<" were given">>))
  ELSE IF IsRaised(HTMLElement_init(tag, <<>>, kwargs))
  THEN HTMLElement_init(tag, <<>>, kwargs)
  ELSE VoidElement(tag, kwargs)

\* cls(*args, **kwargs)
Construct(call) ==
  CASE call.cls = "BaseElement" -> BaseElement(call.args)
    [] call.cls = "If" -> If(call.args[1], call.args[2], call.args[3])
    [] call.cls = "HTMLElement" -> HTMLElement_init(call.tag, call.args, call.kwargs)
    [] call.cls = "VoidElement" -> VoidElement_init(call.tag, call.args, call.kwargs)

ConstructorCall(cls, tag, args, kwargs) ==
  [cls |-> cls, tag |-> tag, args |-> args, kwargs |-> kwargs]

\* the tag classes used here
DIV(children) == HTMLElement(<<"div">>, children, <<>>)
SPAN(children) == HTMLElement(<<"span">>, children, <<>>)
P(children) == HTMLElement(<<"p">>, children, <<>>)
BR == VoidElement(<<"br">>, <<>>)

T(c) == Text(<<c>>)

\* the constructor calls: roots with equal siblings, with matches nested in
\* matches, with several matches in one list, with an element and a tree as
\* attribute values, with a Lazy child and no tag, an If with its two
\* branches; and the calls that fail
ConstructorCalls ==
  { ConstructorCall("BaseElement", <<>>, <<DIV(<<T("a")>>), SPAN(<<T("a")>>)>>, <<>>),
    ConstructorCall("BaseElement", <<>>, <<DIV(<<DIV(<<T("a")>>)>>), DIV(<<T("c")>>)>>, <<>>),
    ConstructorCall("BaseElement", <<>>, <<DIV(<<T("a")>>), SPAN(<<DIV(<<T("d")>>)>>)>>, <<>>),
    ConstructorCall("BaseElement", <<>>,
                    <<DIV(<<T("a")>>), DIV(<<T("b")>>), SPAN(<<T("c")>>)>>, <<>>),
    ConstructorCall("BaseElement", <<>>, <<DIV(<<T("a")>>), DIV(<<T("b")>>)>>, <<>>),
    ConstructorCall("BaseElement", <<>>,
                    <<HTMLElement(<<"div">>, <<T("c"), DIV(<<T("e")>>)>>,
                                  <<Attr(<<"_", "class">>, SPAN(<<T("a")>>))>>),
                      SPAN(<<T("z")>>)>>, <<>>),
    ConstructorCall("HTMLElement", <<"div">>, <<SPAN(<<T("c")>>)>>,
                    <<Attr(<<"_", "class">>,
                           If(PyBool(TRUE), SPAN(<<T("a")>>), DIV(<<T("b")>>)))>>),
    ConstructorCall("BaseElement", <<>>, <<C("x"), BaseElement(<<T("b")>>)>>, <<>>),
    ConstructorCall("If", <<>>,
                    <<PyBool(TRUE), SPAN(<<T("a")>>), BaseElement(<<T("b")>>)>>, <<>>),
    ConstructorCall("If", <<>>,
                    <<PyBool(FALSE), SPAN(<<T("a")>>), BaseElement(<<T("b")>>)>>, <<>>),
    ConstructorCall("VoidElement", <<"br">>, <<>>, <<>>),
    ConstructorCall("VoidElement", <<"br">>, <<T("a")>>, <<>>),
    ConstructorCall("VoidElement", <<>>, <<>>, <<>>),
    ConstructorCall("HTMLElement", <<>>, <<T("a")>>, <<>>) }

WrapperElements == {DIV(<<T("t")>>), BR}
Replacements == {P(<<T("R")>>), None}

TreeContext ==
  [EmptyDict EXCEPT !["x"] = Text(<<"o", "<">>),
                    ![EXCEPTION_HANDLER_NAME] = PyFunc("handler")]

\* how many tree functions were called
Ops == last.n

\* what the last call did: before is the heap it started from
Did(kind, target, args, before, r) ==
  [k |-> kind, target |-> target, args |-> args, before |-> before,
   out |-> r.out, calls |-> r.calls, exc |-> r.exc, n |-> Ops + 1]

Nothing == [out |-> <<>>, calls |-> <<>>, exc |-> NoExc]

InitTree ==
  /\ tree = None
  /\ context = TreeContext
  /\ last = [k |-> "start", n |-> 0]
  /\ NoHeap

Targets == {x \in {tree, clone} : x # None}

\* tree = cls(*args, **kwargs)
NewTree ==
  /\ tree = None
  /\ \E call \in ConstructorCalls :
       LET e == Construct(call)
           a == TreeCall("Alloc", <<heap, e>>)
       IN IF IsRaised(e)
          THEN /\ last' = [k |-> "raised", call |-> call, exc |-> e.exc, n |-> 0]
               /\ UNCHANGED <<tree, heap>>
          ELSE /\ last' = [k |-> "constructed", call |-> call, exc |-> NoExc, n |-> 0]
               /\ tree' = a.ref
               /\ heap' = a.heap
  /\ UNCHANGED <<context, clone, html_id_cache>>

\* list(target.filter(filter_func))
Filter ==
  /\ Ops < MaxOps
  /\ \E target \in Targets, ff \in FilterFuncs :
       LET r == BaseElement_filter(heap, target, ff)
       IN /\ heap' = r.heap
          /\ last' = Did("filter", target, [filter_func |-> ff], heap, r)
  /\ UNCHANGED <<tree, context, clone, html_id_cache>>

\* target.delete(filter_func)
Delete ==
  /\ Ops < MaxOps
  /\ \E target \in Targets, ff \in FilterFuncs :
       LET r == BaseElement_delete(heap, target, ff)
       IN /\ heap' = r.heap
          /\ last' = Did("delete", target, [filter_func |-> ff], heap, r)
  /\ UNCHANGED <<tree, context, clone, html_id_cache>>

\* target.wrap(filter_func, wrapperelement), the wrapper element constructed
\* for the call
Wrap ==
  /\ Ops < MaxOps
  /\ \E target \in Targets, ff \in FilterFuncs, w \in WrapperElements :
       LET a == TreeCall("Alloc", <<heap, w>>)
           r == BaseElement_wrap(a.heap, target, ff, a.ref)
       IN /\ heap' = r.heap
          /\ last' = Did("wrap", target,
                         [filter_func |-> ff, wrapperelement |-> a.ref], a.heap, r)
  /\ UNCHANGED <<tree, context, clone, html_id_cache>>

\* target.replace(select_func, replacement, all), the replacement constructed
\* for the call
Replace ==
  /\ Ops < MaxOps
  /\ \E target \in Targets, sf \in FilterFuncs, v \in Replacements, all \in BOOLEAN :
       LET a == TreeCall("Alloc", <<heap, v>>)
           r == BaseElement_replace(a.heap, target, sf, a.ref, all)
       IN /\ heap' = r.heap
          /\ last' = Did("replace", target,
                         [select_func |-> sf, replacement |-> a.ref, all |-> all],
                         a.heap, [out |-> <<>>, calls |-> r.calls, exc |-> r.exc])
  /\ UNCHANGED <<tree, context, clone, html_id_cache>>

\* clone = tree.copy()
Copy ==
  /\ Ops < MaxOps
  /\ tree # None
  /\ clone = None
  /\ LET c == BaseElement_copy(heap, tree)
     IN /\ heap' = c.heap
        /\ clone' = c.ref
        /\ last' = Did("copy", tree, [memo |-> c.memo], heap, Nothing)
  /\ UNCHANGED <<tree, context, html_id_cache>>

\* target.append("n"): an element is a list
ListAppend ==
  /\ Ops < MaxOps
  /\ \E target \in Targets :
       /\ heap' = SetItems(heap, target, Append(ItemsOf(heap, target), T("n")))
       /\ last' = Did("append", target, [item |-> T("n")], heap, Nothing)
  /\ UNCHANGED <<tree, context, clone, html_id_cache>>

\* target.attributes["id"] = "n"
SetAttribute ==
  /\ Ops < MaxOps
  /\ \E target \in Targets :
       /\ IsTagRef(heap, target)
       /\ \A j \in 1..Len(heap[target.id].attributes) :
            heap[target.id].attributes[j].key # <<"id">>
       /\ heap' = [heap EXCEPT ![target.id].attributes =
                                 Append(@, Attr(<<"id">>, T("n")))]
       /\ last' = Did("setattr", target, [key |-> <<"id">>, value |-> T("n")], heap,
                      Nothing)
  /\ UNCHANGED <<tree, context, clone, html_id_cache>>

\* render(target, context)
RenderTree ==
  /\ last.k # "render"
  /\ \E target \in Targets :
       LET r == Call("render", <<Deheap(heap, target), context, NoFragment>>)
       IN last' = [k |-> "render", target |-> target, prev |-> last,
                   out |-> r.out, exc |-> r.exc, n |-> Ops]
  /\ UNCHANGED <<tree, context, heap, clone, html_id_cache>>

NextTree ==
  \/ NewTree
  \/ Filter
  \/ Delete
  \/ Wrap
  \/ Replace
  \/ Copy
  \/ ListAppend
  \/ SetAttribute
  \/ RenderTree

SpecTree == InitTree /\ [][NextTree]_vars

----------------------------------------------------------------------------
(* Properties *)

Rendered == last # NotRendered

\* what a value renders to as the only child of an element
AsChild(v, ctx, fragment) == render(BaseElement(<<v>>), ctx, fragment).out

\* a Lazy followed through the context, at most n lookups
RECURSIVE Deref(_, _, _)
Deref(v, ctx, n) ==
  IF v.k = "lazy" /\ n > 0
  THEN Deref(IF ctx[v.key] = Absent THEN None ELSE ctx[v.key], ctx, n - 1)
  ELSE v

\* C1: If(c, A, B) renders exactly what A renders when the resolved condition
\* is truthy and exactly what B renders otherwise; without an else branch a
\* falsy condition gives the empty string.
C1_IfRendersBranch ==
  (Rendered /\ last.root.cls = "If") =>
    LET c == Deref(last.root.condition, last.basecontext, Cardinality(Keys))
        A == last.root.ch[1]
        B == last.root.ch[2]
    IN /\ last.exc = NoExc
       /\ Truthy(c) => last.out = AsChild(A, last.basecontext, last.fragment)
       /\ ~Truthy(c) => last.out = AsChild(B, last.basecontext, last.fragment)
       /\ (~Truthy(c) /\ B = None) => last.out = <<>>

\* a Lazy condition that resolves through a second Lazy to a truthy value
\* selected a true branch which is an element, and it rendered text
C1_Witness ==
  /\ Rendered
  /\ last.root.cls = "If"
  /\ last.root.condition = C("c")
  /\ IsLazy(last.basecontext["c"])
  /\ IsBaseElement(last.root.ch[1])
  /\ last.root.ch[2] # None
  /\ last.out # <<>>
  /\ last.out # AsChild(last.root.ch[2], last.basecontext, last.fragment)

\* the renderings of content for the items from the k-th on, each against
\* the parent context with name = item and name_index = position
RECURSIVE C2_Concat(_, _, _, _, _, _)
C2_Concat(content, name, items, k, ctx, fragment) ==
  IF k > Len(items) THEN <<>>
  ELSE AsChild(content,
               [ctx EXCEPT ![name] = items[k], ![IndexKey(name)] = PyInt(k - 1)],
               fragment)
       \o C2_Concat(content, name, items, k + 1, ctx, fragment)

\* C2: for an iterable of n items, given directly or through a Lazy, Iterator
\* renders content n times in order, the k-th time with name = vk and
\* name_index = k, and its output is the concatenation; nothing for no items.
C2_IteratorConcatenates ==
  (Rendered /\ last.root.cls = "Iterator") =>
    LET it == Deref(last.root.iterator, last.basecontext, Cardinality(Keys))
    IN it.k = "list" =>
         /\ last.exc = NoExc
         /\ last.out = C2_Concat(last.root.ch[1], last.root.loopvariable,
                                 it.items, 1, last.basecontext, last.fragment)
         /\ it.items = <<>> => last.out = <<>>

\* an iterable of two items reached through a Lazy, with a content that
\* shows the loop variable and its index
C2_Witness ==
  /\ Rendered
  /\ last.root.cls = "Iterator"
  /\ IsLazy(last.root.iterator)
  /\ Deref(last.root.iterator, last.basecontext, 1) = PyList(<<SafeText, PyInt(7)>>)
  /\ IsBaseElement(last.root.ch[1])
  /\ last.root.ch[1].ch[1] = C("i")
  /\ last.root.ch[1].ch[3] = C("i_index")
  /\ last.fragment = NoFragment
  /\ last.out = <<"<", "i", ">", "&", "\"", "0", "7", "1">>

\* C3: inside a WithContext an overridden key has the override value; the
\* siblings before and after a WithContext or an Iterator render against the
\* outer bindings; the caller's context is unchanged when render returns.
C3_ScopedContext ==
  Rendered =>
    /\ context = last.basecontext
    /\ (/\ last.root.cls = "WithContext"
        /\ last.root.ch = <<C("x")>>
        /\ last.fragment = NoFragment)
       => last.out = IntStr(last.root.additional_context["x"].n)
    /\ (/\ last.root.cls = "BaseElement"
        /\ Len(last.root.ch) = 3
        /\ IsBaseElement(last.root.ch[2])
        /\ last.root.ch[2].cls \in {"WithContext", "Iterator"})
       => last.out = AsChild(last.root.ch[1], last.basecontext, last.fragment)
                     \o AsChild(last.root.ch[2], last.basecontext, last.fragment)
                     \o AsChild(last.root.ch[3], last.basecontext, last.fragment)

\* an Iterator over two items between two siblings that look up the loop
\* variable, which the outer context binds, and its index, which it does not
C3_Witness ==
  /\ Rendered
  /\ last.root.cls = "BaseElement"
  /\ last.root.ch[1] = C("i")
  /\ last.root.ch[3] = C("i_index")
  /\ IsBaseElement(last.root.ch[2])
  /\ last.root.ch[2].cls = "Iterator"
  /\ last.root.ch[2].ch = <<C("i")>>
  /\ last.basecontext["i"] = Text(<<"z">>)
  /\ last.fragment = NoFragment
  /\ last.out = <<"z", "0", "1">>

\* the items an Iterator draws from a resolved value, none when it is no list
C4_Items(v) == IF v.k = "list" THEN v.items ELSE <<>>

\* the complete renderings, in document order, of the Fragment nodes named
\* name that no other Fragment encloses; every other node contributes nothing
\* of its own
RECURSIVE C4_Selected(_, _, _)
RECURSIVE C4_SelectedIn(_, _, _)
RECURSIVE C4_SelectedLoop(_, _, _, _, _)
C4_SelectedIn(children, ctx, name) ==
  IF children = <<>> THEN <<>>
  ELSE C4_Selected(Head(children), ctx, name) \o C4_SelectedIn(Tail(children), ctx, name)
C4_SelectedLoop(node, items, k, ctx, name) ==
  IF k > Len(items) THEN <<>>
  ELSE C4_SelectedIn(node.ch,
                     [ctx EXCEPT ![node.loopvariable] = items[k],
                                 ![IndexKey(node.loopvariable)] = PyInt(k - 1)],
                     name)
       \o C4_SelectedLoop(node, items, k + 1, ctx, name)
C4_Selected(node0, ctx, name) ==
  LET node == Deref(node0, ctx, Cardinality(Keys))
  IN IF ~IsBaseElement(node) THEN <<>>
     ELSE CASE node.cls = "Fragment" ->
                 IF node.name = name THEN AsChild(node, ctx, NoFragment) ELSE <<>>
            [] node.cls = "If" ->
                 IF Truthy(Deref(node.condition, ctx, Cardinality(Keys)))
                 THEN C4_Selected(node.ch[1], ctx, name)
                 ELSE C4_Selected(node.ch[2], ctx, name)
            [] node.cls = "Iterator" ->
                 C4_SelectedLoop(node, C4_Items(Deref(node.iterator, ctx, Cardinality(Keys))),
                                 1, ctx, name)
            [] node.cls = "WithContext" ->
                 C4_SelectedIn(node.ch, DictMerge(ctx, node.additional_context), name)
            [] OTHER -> C4_SelectedIn(node.ch, ctx, name)

\* every Iterator of the tree is given a list, directly or through a Lazy
RECURSIVE C4_Iterable(_, _)
RECURSIVE C4_IterableAll(_, _)
C4_IterableAll(children, ctx) ==
  children = <<>> \/ (C4_Iterable(Head(children), ctx) /\ C4_IterableAll(Tail(children), ctx))
C4_Iterable(node, ctx) ==
  IsBaseElement(node) =>
    /\ node.cls = "Iterator" =>
         Deref(node.iterator, ctx, Cardinality(Keys)).k = "list"
    /\ C4_IterableAll(node.ch, ctx)

\* the tree holds no markup tag
RECURSIVE C4_NoTag(_)
RECURSIVE C4_NoTagAll(_)
C4_NoTagAll(children) ==
  children = <<>> \/ (C4_NoTag(Head(children)) /\ C4_NoTagAll(Tail(children)))
C4_NoTag(node) ==
  IsBaseElement(node) => (~IsHTMLElement(node) /\ C4_NoTagAll(node.ch))

\* C4: render(tree, context, fragment=n) is the concatenation, in document
\* order, of the complete renderings of the Fragment nodes named n that are not
\* inside a differently named Fragment, and nothing for any node outside them; a name no
\* Fragment carries gives the empty string.
C4_FragmentSelects ==
  (/\ Rendered
   /\ last.fragment # NoFragment
   /\ C4_Iterable(last.root, last.basecontext)) =>
    /\ last.exc = NoExc
    /\ last.out = C4_Selected(last.root, last.basecontext, last.fragment)

\* the same for the trees without a markup tag, where it holds
C4_FragmentSelectsNoTag ==
  (/\ Rendered
   /\ last.fragment # NoFragment
   /\ C4_Iterable(last.root, last.basecontext)
   /\ C4_NoTag(last.root)) =>
    /\ last.exc = NoExc
    /\ last.out = C4_Selected(last.root, last.basecontext, last.fragment)

\* text with each of < > & " replaced by its entity
C5_Entity(c) ==
  CASE c = "<" -> <<"&", "l", "t", ";">>
    [] c = ">" -> <<"&", "g", "t", ";">>
    [] c = "&" -> <<"&", "a", "m", "p", ";">>
    [] c = "\"" -> <<"&", "q", "u", "o", "t", ";">>
    [] OTHER -> <<c>>
RECURSIVE C5_Entities(_)
C5_Entities(s) ==
  IF s = <<>> THEN <<>> ELSE C5_Entity(s[1]) \o C5_Entities(Tail(s))

\* C5: a text leaf not marked safe is emitted with < > & " replaced by their
\* entities, a leaf marked safe is emitted unchanged, and escaping what was
\* escaped returns it unchanged.
C5_TextEscapedOnce ==
  (/\ Rendered
   /\ last.root.cls = "BaseElement"
   /\ Len(last.root.ch) = 1
   /\ last.root.ch[1].k = "str"
   /\ last.fragment = NoFragment) =>
    LET leaf == last.root.ch[1]
    IN /\ last.exc = NoExc
       /\ ~leaf.safe => last.out = C5_Entities(leaf.s)
       /\ leaf.safe => last.out = leaf.s
       /\ conditional_escape(conditional_escape(leaf)).s = last.out

\* an unsafe leaf with three of the characters was rendered
C5_Witness ==
  /\ Rendered
  /\ last.fragment = NoFragment
  /\ last.root.ch = <<Text(<<"<", "&", "\"">>)>>
  /\ last.out = <<"&", "l", "t", ";", "&", "a", "m", "p", ";", "&", "q", "u", "o", "t", ";">>

\* the tag was built with one keyword argument
C6_OneAttr == Rendered /\ Len(last.root.attributes) = 1
C6_Key == last.root.attributes[1].key
C6_Value == Deref(last.root.attributes[1].value, last.basecontext, Cardinality(Keys))

RECURSIVE C6_Strip(_)
C6_Strip(s) ==
  IF s # <<>> /\ Head(s) = " " THEN C6_Strip(Tail(s))
  ELSE IF s # <<>> /\ s[Len(s)] = " " THEN C6_Strip(SubSeq(s, 1, Len(s) - 1))
  ELSE s

\* the attribute string in the output of a childless tag: what stands between
\* <tag and > or />, without the spaces around it
C6_AttrPart ==
  C6_Strip(SubSeq(last.out, 3,
                  Len(last.out) - (IF last.root.cls = "VoidElement" THEN 2 ELSE 5)))

\* the key with one leading underscore removed and every other underscore
\* replaced by a hyphen
RECURSIVE C8_Hyphens(_)
C8_Hyphens(key) ==
  IF key = <<>> THEN <<>>
  ELSE <<IF Head(key) = "_" THEN "-" ELSE Head(key)>> \o C8_Hyphens(Tail(key))
C8_Name(key) == C8_Hyphens(IF Head(key) = "_" THEN Tail(key) ELSE key)

\* C6: an attribute whose resolved value is a literal other than None and
\* the booleans is emitted as key="v", v the value with < > & " replaced by
\* entities unless it is marked safe.
C6_AttrValueEscaped ==
  (C6_OneAttr /\ C6_Value.k \in {"str", "int"}) =>
    /\ last.exc = NoExc
    /\ C6_AttrPart = C8_Name(C6_Key) \o <<"=", "\"">>
                     \o (IF HasHtml(C6_Value) THEN C6_Value.s
                         ELSE C5_Entities(str(C6_Value)))
                     \o <<"\"">>

\* " ".join, written out
RECURSIVE C7_Join(_)
C7_Join(items) ==
  IF items = <<>> THEN <<>>
  ELSE items[1] \o (IF Len(items) > 1 THEN <<" ">> ELSE <<>>) \o C7_Join(Tail(items))

C7_Quoted(key, v) == C8_Name(key) \o <<"=", "\"">> \o str(v) \o <<"\"">>

\* the items of the attributes from the k-th on, their values literals: None
\* gives none, any value but a boolean name="value"; as stated, True gives
\* the bare name unless the key is "value" and False gives none; as amended,
\* a boolean whose emitted name is "value" gives value="True" or value="False"
RECURSIVE C7_Items(_, _, _)
C7_Items(attributes, k, amended) ==
  IF k > Len(attributes) THEN <<>>
  ELSE LET key == attributes[k].key
           v == attributes[k].value
           isValue == IF amended THEN C8_Name(key) = <<"value">> ELSE key = <<"value">>
           item == CASE v = None -> <<>>
                     [] v.k = "bool" /\ ~isValue ->
                          IF v.b THEN <<C8_Name(key)>> ELSE <<>>
                     [] v.k = "bool" /\ isValue ->
                          IF v.b \/ amended THEN <<C7_Quoted(key, v)>> ELSE <<>>
                     [] OTHER -> <<C7_Quoted(key, v)>>
       IN item \o C7_Items(attributes, k + 1, amended)

C7_Literal ==
  /\ Rendered
  /\ \A j \in 1..Len(last.root.attributes) :
       last.root.attributes[j].value.k \in {"none", "bool", "int"}

\* C7 as stated: True is emitted as the bare key unless the key is "value",
\* False is omitted, None is omitted, and the remaining attributes keep their
\* order, separated by single spaces.
C7_BooleanAttrs ==
  C7_Literal =>
    /\ last.exc = NoExc
    /\ C6_AttrPart = C7_Join(C7_Items(last.root.attributes, 1, FALSE))

\* C7 amended: True is emitted as the bare name and False is omitted unless
\* the emitted name is "value", where a boolean is emitted as value="True" or
\* value="False"; None is omitted, and the remaining attributes keep their
\* order, separated by single spaces.
C7_BooleanAttrsAmended ==
  C7_Literal =>
    /\ last.exc = NoExc
    /\ C6_AttrPart = C7_Join(C7_Items(last.root.attributes, 1, TRUE))

\* three attributes, a True flag, a False under "value" and a number
C7_Witness ==
  /\ Rendered
  /\ last.root.attributes = <<Attr(<<"checked">>, PyBool(TRUE)),
                              Attr(<<"value">>, PyBool(FALSE)),
                              Attr(<<"_", "class">>, PyInt(1))>>
  /\ last.out = <<"<", "div", " ", "checked", " ", "value", "=", "\"", "F", "a", "l", "s", "e",
                  "\"", " ", "class", "=", "\"", "1", "\"", ">", "<", "/", "div", ">">>

\* C8: the emitted attribute name is the key with one leading underscore
\* removed and every remaining underscore replaced by a hyphen.
C8_AttrNames ==
  (C6_OneAttr /\ last.exc = NoExc /\ C6_AttrPart # <<>>) =>
    LET name == C8_Name(C6_Key)
    IN /\ Len(C6_AttrPart) >= Len(name)
       /\ SubSeq(C6_AttrPart, 1, Len(name)) = name
       /\ Len(C6_AttrPart) > Len(name) => C6_AttrPart[Len(name) + 1] = "="

\* a key with two leading underscores was emitted with one hyphen
C8_Witness ==
  /\ C6_OneAttr
  /\ C6_Key = <<"_", "_", "a">>
  /\ last.root.cls = "HTMLElement"
  /\ last.root.attributes[1].value = PyInt(1)
  /\ last.out = <<"<", "div", " ", "-", "a", "=", "\"", "1", "\"", ">", "<", "/", "div", ">">>

\* C9: an attribute whose value is an element is emitted with the element's
\* rendered text as its value and omitted whenever that text is empty; when
\* the selected branch of an If is a boolean, the boolean rules apply to it.
C9_ElementAttr ==
  (C6_OneAttr /\ IsBaseElement(C6_Value)) =>
    LET e == C6_Value
        branch == IF e.cls # "If" THEN None
                  ELSE IF Truthy(Deref(e.condition, last.basecontext, Cardinality(Keys)))
                  THEN Deref(e.ch[1], last.basecontext, Cardinality(Keys))
                  ELSE Deref(e.ch[2], last.basecontext, Cardinality(Keys))
        text == Join(call_render_positional(e, last.basecontext).out)
    IN /\ last.exc = NoExc
       /\ C6_AttrPart =
            IF branch.k = "bool"
            THEN C7_Join(C7_Items(<<Attr(C6_Key, branch)>>, 1, TRUE))
            ELSE IF text = <<>> THEN <<>>
            ELSE C8_Name(C6_Key) \o <<"=", "\"">> \o text \o <<"\"">>

\* the markup of a tag rendered with no fragment: <tag attrs>, the children,
\* </tag>, and <tag attrs /> for a void tag, parts one space apart
C10_Markup(e, ctx) ==
  LET attrs == flatattrs(e.attributes, ctx).out
      sp == IF attrs = <<>> THEN <<>> ELSE <<" ">> \o attrs
  IN IF e.cls = "VoidElement"
     THEN <<"<">> \o e.tag \o sp \o <<" ", "/", ">">>
     ELSE <<"<">> \o e.tag \o sp \o <<">">>
          \o AsChild(BaseElement(e.ch), ctx, NoFragment)
          \o <<"<", "/">> \o e.tag \o <<">">>

\* C10: through render, a tag at the root or as a child yields <tag, the
\* attributes after one space when any is emitted, >, the children and </tag>;
\* a void tag yields <tag attrs /> with single spaces.
C10_TagMarkup ==
  (Rendered /\ last.fragment = NoFragment) =>
    /\ IsHTMLElement(last.root) =>
         /\ last.exc = NoExc
         /\ last.out = C10_Markup(last.root, last.basecontext)
    /\ (/\ last.root.cls = "BaseElement"
        /\ Len(last.root.ch) = 3
        /\ IsHTMLElement(last.root.ch[2])) =>
         last.out = AsChild(last.root.ch[1], last.basecontext, NoFragment)
                    \o C10_Markup(last.root.ch[2], last.basecontext)
                    \o AsChild(last.root.ch[3], last.basecontext, NoFragment)

\* the same for a void tag rendered by its own render method
C10_VoidMarkup ==
  (Rendered /\ last.root.cls = "VoidElement" /\ last.exc = NoExc) =>
    last.out = C10_Markup(last.root, last.basecontext)

C12_IdsUnique ==
  last.k = "html_id" =>
    /\ \A p, q \in 1..Len(last.returned) :
         p # q => last.returned[p] # last.returned[q]
    /\ \A p \in 1..Len(last.returned) : last.returned[p] \in html_id_cache

\* three calls whose first choice of identifier is taken twice: the same
\* object again, and before it another object under a longer prefix
C12_Witness ==
  /\ last.k = "html_id"
  /\ Len(last.returned) = 3
  /\ last.returned[1] = <<"i", "d", "-", "4", "2">>
  /\ last.returned[2] = <<"i", "d", "-", "4", "2", "-", "0">>
  /\ last.returned[3] = <<"i", "d", "-", "4", "2", "-", "1">>
  /\ Cardinality(html_id_cache) = 3

\* the elements of the tree v: v, and the elements among its children and
\* attribute values and below them
RECURSIVE ElementsOf(_)
ElementsOf(v) ==
  IF ~IsBaseElement(v) THEN {}
  ELSE {v}
       \cup UNION {ElementsOf(v.ch[j]) : j \in 1..Len(v.ch)}
       \cup (IF IsHTMLElement(v)
             THEN UNION {ElementsOf(v.attributes[j].value) : j \in 1..Len(v.attributes)}
             ELSE {})

\* a void element with children, or a tag element without a tag
C11_Misuse(e) ==
  \/ e.cls = "VoidElement" /\ e.ch # <<>>
  \/ IsHTMLElement(e) /\ e.tag = <<>>

\* C11: the constructor of a void element called with children, and the
\* constructor of a tag class without a tag, raise, and only these calls do;
\* so no tree that is rendered holds a void element with children or an
\* element without a tag.
C11_MisuseFailsAtConstruction ==
  /\ last.k \in {"raised", "constructed"} =>
       /\ last.k = "raised" <=>
            \/ last.call.cls = "VoidElement" /\ last.call.args # <<>>
            \/ last.call.cls \in {"HTMLElement", "VoidElement"} /\ last.call.tag = <<>>
       /\ last.k = "raised" => tree = None
  /\ last.k = "render" =>
       \A e \in ElementsOf(Deheap(heap, last.target)) : ~C11_Misuse(e)

\* predicate(node, ancestorPath) of the callers' predicates, on trees as
\* values: the path is the root first
Matches(ff, v, path) ==
  CASE ff = "is_span" -> IsHTMLElement(v) /\ v.tag = <<"span">>
    [] ff = "is_div" -> IsHTMLElement(v) /\ v.tag = <<"div">>
    [] ff = "any" -> TRUE
    [] ff = "in_span" ->
         /\ path # <<>>
         /\ IsHTMLElement(path[Len(path)])
         /\ path[Len(path)].tag = <<"span">>
    [] ff = "is_root" -> path = <<>>

\* the tree v below the ancestors path, without every descendant that
\* matches ff, whether a child or an attribute value
RECURSIVE C13_Deleted(_, _, _)
C13_Deleted(v, path, ff) ==
  IF ~IsBaseElement(v) THEN v
  ELSE LET here == Append(path, v)
           ch == SelectSeq(v.ch, LAMBDA c : ~(IsBaseElement(c) /\ Matches(ff, c, here)))
           below == [j \in 1..Len(ch) |-> C13_Deleted(ch[j], here, ff)]
       IN IF ~IsHTMLElement(v) THEN [v EXCEPT !.ch = below]
          ELSE LET at == SelectSeq(v.attributes,
                                   LAMBDA a : ~(IsBaseElement(a.value)
                                                /\ Matches(ff, a.value, here)))
               IN [v EXCEPT !.ch = below,
                            !.attributes =
                              [j \in 1..Len(at) |->
                                 [key |-> at[j].key,
                                  value |-> C13_Deleted(at[j].value, here, ff)]]]

\* C13: after delete(predicate) the tree is the tree before without the
\* descendants that matched, attribute values and the elements below them
\* included; every other node is where it was, in the same order, also one
\* that is equal to a removed match; and what is rendered next is what this
\* tree renders.
C13_DeleteRemovesMatches ==
  /\ (last.k = "delete" /\ last.exc = NoExc) =>
       Deheap(heap, last.target) =
         C13_Deleted(Deheap(last.before, last.target), <<>>, last.args.filter_func)
  /\ (/\ last.k = "render" /\ last.prev.k = "delete" /\ last.prev.exc = NoExc
      /\ last.prev.target = last.target) =>
       LET expected == C13_Deleted(Deheap(last.prev.before, last.target), <<>>,
                                   last.prev.args.filter_func)
       IN last.out = render(expected, context, NoFragment).out

\* the items below the element e, each with its ancestor path: for a tag its
\* attribute values, then the children
Below(h, e, path) ==
  LET items == (IF IsTagRef(h, e) THEN AttributeValues(h, e) ELSE <<>>) \o ItemsOf(h, e)
  IN [j \in 1..Len(items) |-> [e |-> items[j], ancestors |-> Append(path, e)]]

\* the elements among the items of stack and below them, in depth-first
\* pre-order, each with its ancestor path
RECURSIVE PreOrder(_, _)
PreOrder(h, stack) ==
  IF stack = <<>> THEN <<>>
  ELSE IF ~IsElementRef(h, Head(stack).e) THEN PreOrder(h, Tail(stack))
  ELSE <<Head(stack)>>
       \o PreOrder(h, Below(h, Head(stack).e, Head(stack).ancestors) \o Tail(stack))

\* the element descendants of r in depth-first pre-order
Descendants(h, r) == PreOrder(h, Below(h, r, <<>>))

RECURSIVE C15_Wrapped(_, _, _, _)
C15_Wrapped(v, path, ff, w) ==
  IF ~IsBaseElement(v) THEN v
  ELSE LET here == Append(path, v)
           item(c) == IF IsBaseElement(c) /\ Matches(ff, c, here)
                      THEN [w EXCEPT !.ch = Append(w.ch, C15_Wrapped(c, here, ff, w))]
                      ELSE C15_Wrapped(c, here, ff, w)
           ch == [j \in 1..Len(v.ch) |-> item(v.ch[j])]
       IN IF ~IsHTMLElement(v) THEN [v EXCEPT !.ch = ch]
          ELSE [v EXCEPT !.ch = ch,
                         !.attributes =
                           [j \in 1..Len(v.attributes) |->
                              [key |-> v.attributes[j].key,
                               value |-> item(v.attributes[j].value)]]]

\* no element is below r at two places
NoSharing(h, r) ==
  \A p, q \in 1..Len(Descendants(h, r)) :
    p # q => Descendants(h, r)[p].e # Descendants(h, r)[q].e

\* C15: after wrap(predicate, wrapperTemplate) every matching descendant, in
\* a child list or as the attribute value of a tag, has at its place a copy
\* of the template that holds it as the one child added; the wrappers are
\* objects of their own, none of them the template; the template is as it
\* was; and every other node is where it was.
C15_WrapWrapsMatches ==
  (last.k = "wrap" /\ last.exc = NoExc) =>
    LET w == last.args.wrapperelement
    IN /\ Deheap(heap, last.target) =
            C15_Wrapped(Deheap(last.before, last.target), <<>>,
                        last.args.filter_func, Deheap(last.before, w))
       /\ Deheap(heap, w) = Deheap(last.before, w)
       /\ NoSharing(last.before, last.target) =>
            /\ NoSharing(heap, last.target)
            /\ \A j \in 1..Len(Descendants(heap, last.target)) :
                 Descendants(heap, last.target)[j].e # w

\* A position below an element is the sequence of the steps to it from the
\* element, a step being the index of a child or of an attribute value.
Step(attr, j) == [attr |-> attr, j |-> j]
StepTo(v, s) == IF s.attr THEN v.attributes[s.j].value ELSE v.ch[s.j]
StepsOf(v) ==
  {Step(FALSE, j) : j \in 1..Len(v.ch)}
  \cup (IF IsHTMLElement(v) THEN {Step(TRUE, j) : j \in 1..Len(v.attributes)} ELSE {})

\* the positions of the element descendants of v
RECURSIVE Positions(_)
Positions(v) ==
  UNION { IF ~IsBaseElement(StepTo(v, s)) THEN {}
          ELSE {<<s>>} \cup {<<s>> \o p : p \in Positions(StepTo(v, s))} :
          s \in StepsOf(v) }

\* the node at position p below v, and its ancestors from v on
RECURSIVE NodeAt(_, _)
NodeAt(v, p) == IF p = <<>> THEN v ELSE NodeAt(StepTo(v, Head(p)), Tail(p))
PathTo(v, p) == [j \in 1..Len(p) |-> NodeAt(v, SubSeq(p, 1, j - 1))]

\* v with the node at position p replaced by x, or taken out when x is None
RECURSIVE Subst(_, _, _)
Subst(v, p, x) ==
  LET s == Head(p)
  IN IF Len(p) > 1
     THEN IF s.attr
          THEN [v EXCEPT !.attributes[s.j].value = Subst(@, Tail(p), x)]
          ELSE [v EXCEPT !.ch[s.j] = Subst(@, Tail(p), x)]
     ELSE IF x # None
     THEN IF s.attr THEN [v EXCEPT !.attributes[s.j].value = x]
          ELSE [v EXCEPT !.ch[s.j] = x]
     ELSE IF s.attr THEN [v EXCEPT !.attributes = RemoveAt(@, s.j)]
          ELSE [v EXCEPT !.ch = RemoveAt(@, s.j)]

\* depth-first orders of the positions: the attribute values of a tag come
\* before its children, and an element before (pre) or after (post) the
\* elements below it
StepBefore(s, u) == (s.attr /\ ~u.attr) \/ (s.attr = u.attr /\ s.j < u.j)
RECURSIVE SiblingBefore(_, _)
SiblingBefore(p, q) ==
  /\ p # <<>> /\ q # <<>>
  /\ IF Head(p) = Head(q) THEN SiblingBefore(Tail(p), Tail(q))
     ELSE StepBefore(Head(p), Head(q))
IsPrefix(p, q) == Len(p) < Len(q) /\ SubSeq(q, 1, Len(p)) = p
PreBefore(p, q) == IsPrefix(p, q) \/ SiblingBefore(p, q)
PostBefore(p, q) == IsPrefix(q, p) \/ SiblingBefore(p, q)

\* the positions of the descendants of v that match ff
MatchesIn(v, ff) ==
  {p \in Positions(v) : Matches(ff, NodeAt(v, p), PathTo(v, p))}

\* C16: replace(predicate, replacement) with all=false leaves a tree in which
\* nothing matches as it is, and otherwise changes the one position of the
\* first match in depth-first order, matches below an earlier sibling and in
\* its attribute values before those of a later sibling (in either of the
\* depth-first orders, an element before or after those below it): the
\* replacement is there, and every other node is where it was.
C16_ReplaceFirst ==
  (last.k = "replace" /\ ~last.args.all) =>
    LET v == Deheap(last.before, last.target)
        x == Deheap(last.before, last.args.replacement)
        after == Deheap(heap, last.target)
        m == MatchesIn(v, last.args.select_func)
    IN /\ last.exc = NoExc
       /\ m = {} => after = v
       /\ m # {} =>
            \E p \in m :
              /\ after = Subst(v, p, x)
              /\ \/ \A q \in m \ {p} : PreBefore(p, q)
                 \/ \A q \in m \ {p} : PostBefore(p, q)

\* the tree v below the ancestors path with x at the place of every matching
\* descendant, child or attribute value; without them when x is None
RECURSIVE C17_Replaced(_, _, _, _)
C17_Replaced(v, path, ff, x) ==
  IF ~IsBaseElement(v) THEN v
  ELSE LET here == Append(path, v)
           hit(c) == IsBaseElement(c) /\ Matches(ff, c, here)
           ch == IF x = None THEN SelectSeq(v.ch, LAMBDA c : ~hit(c)) ELSE v.ch
           at == IF IsHTMLElement(v)
                 THEN IF x = None
                      THEN SelectSeq(v.attributes, LAMBDA a : ~hit(a.value))
                      ELSE v.attributes
                 ELSE <<>>
           item(c) == IF hit(c) THEN x ELSE C17_Replaced(c, here, ff, x)
           below == [j \in 1..Len(ch) |-> item(ch[j])]
       IN IF ~IsHTMLElement(v) THEN [v EXCEPT !.ch = below]
          ELSE [v EXCEPT !.ch = below,
                         !.attributes =
                           [j \in 1..Len(at) |->
                              [key |-> at[j].key, value |-> item(at[j].value)]]]

\* C17: replace(predicate, replacement) with all=true puts the replacement
\* at the place of every matching descendant and leaves every other node
\* where it was; with None as the replacement the matches are taken out and
\* nothing else is, also when several of them are in one list, for all=true
\* and, for the one selected match, for all=false.
C17_ReplaceAll ==
  /\ (last.k = "replace" /\ last.args.all) =>
       /\ last.exc = NoExc
       /\ Deheap(heap, last.target) =
            C17_Replaced(Deheap(last.before, last.target), <<>>,
                         last.args.select_func,
                         Deheap(last.before, last.args.replacement))
  /\ (last.k = "replace" /\ ~last.args.all /\ last.args.replacement = None) =>
       LET v == Deheap(last.before, last.target)
           m == MatchesIn(v, last.args.select_func)
       IN /\ last.exc = NoExc
          /\ m = {} => Deheap(heap, last.target) = v
          /\ m # {} => \E p \in m : Deheap(heap, last.target) = Subst(v, p, None)

\* C18: the tree copy() returns renders as the original does, and a call
\* of delete, wrap, replace, append or an assignment to attributes on one of
\* the two leaves the other one, and so what it renders, as it was.
C18_CopyIsIndependent ==
  /\ last.k = "copy" =>
       LET original == render(Deheap(heap, tree), context, NoFragment)
           copied == render(Deheap(heap, clone), context, NoFragment)
       IN copied.out = original.out /\ copied.exc = original.exc
  /\ (last.k \in {"delete", "wrap", "replace", "append", "setattr"} /\ clone # None) =>
       \A other \in {tree, clone} \ {last.target} :
         Deheap(heap, other) = Deheap(last.before, other)

\* C26: no exception leaves render(root, context): also when the root is an
\* If or an Iterator whose own condition or iterable cannot be resolved or
\* used, the render returns a string.
C26_RenderNeverRaises ==
  (Rendered /\ last.root.cls \in {"If", "Iterator"}) => last.exc = NoExc

\* C30: an Iterator whose iterable resolves to a str of several characters
\* is rejected, or renders its content once with the str as the one item;
\* it does not render its content once for each character.
C30_StrIsOneItem ==
  (/\ Rendered
   /\ last.root.cls = "Iterator"
   /\ Deref(last.root.iterator, last.basecontext, Cardinality(Keys)).k = "str"
   /\ Len(Deref(last.root.iterator, last.basecontext, Cardinality(Keys)).s) > 1) =>
    LET it == Deref(last.root.iterator, last.basecontext, Cardinality(Keys))
        once == Iterator_loop(last.root, <<it>>, 1, last.basecontext, TRUE,
                              last.fragment)
    IN last.exc # NoExc \/ last.out = Join(once.out)

\* C28: after delete, or replace by None, took the true branch out of an If
\* and left its false branch, the If renders nothing when its condition is
\* truthy and renders the false branch when its condition is falsy.
C28_IfKeepsBranchRoles ==
  (/\ last.k = "render"
   /\ last.prev.k \in {"delete", "replace"}
   /\ last.prev.k = "replace" => last.prev.args.replacement = None
   /\ last.prev.target = last.target
   /\ heap[last.target.id].cls = "If"
   /\ Len(last.prev.before[last.target.id].ch) = 2
   /\ (IF last.prev.k = "delete" THEN last.prev.args.filter_func
                                 ELSE last.prev.args.select_func) = "is_span"
   /\ TagIs(last.prev.before, last.prev.before[last.target.id].ch[1], <<"span">>)) =>
    LET before == Deheap(last.prev.before, last.target)
    IN /\ last.exc = NoExc
       /\ Truthy(resolve_lazy(before.condition, context)) => last.out = <<>>
       /\ ~Truthy(resolve_lazy(before.condition, context)) =>
            last.out = AsChild(before.ch[2], context, NoFragment)

\* C27: when html_id runs in several threads at the same time, their
\* membership tests and insertions interleaved in any order, no two calls
\* return the same identifier.
C27_ConcurrentIdsUnique ==
  last.k = "threads" =>
    \A p, q \in 1..Len(last.returned) :
      p # q => last.returned[p] # last.returned[q]

\* the keys of a dict of attributes, and the value under one of them
C25_KeysOf(attrs) ==
  IF attrs = None THEN {} ELSE {attrs.items[j].key : j \in 1..Len(attrs.items)}
C25_ValueOf(attrs, key) ==
  attrs.items[CHOOSE j \in 1..Len(attrs.items) : attrs.items[j].key = key].value

\* the separator the claim names for a key
C25_Separator(separators, key) ==
  IF separators # None /\ separators.items[key] # Absent THEN separators.items[key].s
  ELSE IF key = <<"_", "c", "l", "a", "s", "s">> THEN <<" ">>
  ELSE IF key = <<"s", "t", "y", "l", "e">> THEN <<";">>
  ELSE IF /\ StartsWithOn(key)
          /\ \A j \in 1..Len(key) : key[j] \in Letters
  THEN <<";">>
  ELSE <<" ">>

\* the dict merge_html_attrs returned has the keys of both dicts; a key of
\* one dict only has its value; a key of both has a value that renders as
\* the old value, the separator and the new value
C25_Merged(separators) ==
  /\ C25_KeysOf(last.ret) = C25_KeysOf(last.attrs) \cup C25_KeysOf(last.newattrs)
  /\ \A key \in C25_KeysOf(last.attrs) \ C25_KeysOf(last.newattrs) :
       C25_ValueOf(last.ret, key) = C25_ValueOf(last.attrs, key)
  /\ \A key \in C25_KeysOf(last.newattrs) \ C25_KeysOf(last.attrs) :
       C25_ValueOf(last.ret, key) = C25_ValueOf(last.newattrs, key)
  /\ \A key \in C25_KeysOf(last.attrs) \cap C25_KeysOf(last.newattrs) :
       AttrValue(C25_ValueOf(last.ret, key), EmptyDict).value
         = Text(str(C25_ValueOf(last.attrs, key))
                \o C25_Separator(separators, key)
                \o str(C25_ValueOf(last.newattrs, key)))

\* C25: merge_html_attrs returns a dict with the keys of both dicts; a key
\* of one side keeps its value; a key of both sides renders as the old
\* value, the separator and the new value, the separator being the one
\* supplied for the key, the empty one included, and else the default:
\* space for _class, semicolon for style and for lowercase alphabetic keys
\* that start with "on", space for every other key.
C25_MergeSeparators ==
  (last.k = "merge" /\ last.called) => C25_Merged(last.separators)

\* what stands for an argument of a format string: nothing for None, the
\* rendered output for an element, the text as it is for a safe str, and
\* the escaped text form of any other value
FormatSub(v, ctx) ==
  IF v = None THEN <<>>
  ELSE IF IsBaseElement(v) THEN render(v, ctx, NoFragment).out
  ELSE IF HasHtml(v) THEN v.s
  ELSE HtmlEscape(str(v))

\* the format string from character i on with subs for its positional and
\* kwsubs for its keyword arguments: the literal characters as they are for
\* a safe format string and escaped for any other, {{ and }} as a brace
RECURSIVE FormatWalk(_, _, _, _, _, _)
FormatWalk(fs, i, auto, safe, subs, kwsubs) ==
  IF i > Len(fs) THEN <<>>
  ELSE IF fs[i] \in {"{", "}"} /\ i < Len(fs) /\ fs[i + 1] = fs[i]
  THEN <<fs[i]>> \o FormatWalk(fs, i + 2, auto, safe, subs, kwsubs)
  ELSE IF fs[i] = "{"
  THEN IF fs[i + 1] = "}"
       THEN subs[auto + 1] \o FormatWalk(fs, i + 2, auto + 1, safe, subs, kwsubs)
       ELSE IF fs[i + 1] \in {"0", "1"}
       THEN subs[FieldIndex(<<fs[i + 1]>>) + 1]
            \o FormatWalk(fs, i + 3, auto, safe, subs, kwsubs)
       ELSE kwsubs[CHOOSE j \in 1..Len(kwsubs) : kwsubs[j].key = <<fs[i + 1]>>].value
            \o FormatWalk(fs, i + 3, auto, safe, subs, kwsubs)
  ELSE (IF safe THEN <<fs[i]>> ELSE EscapeChar(fs[i]))
       \o FormatWalk(fs, i + 1, auto, safe, subs, kwsubs)

\* the arguments of the rendered FormatString, every Lazy resolved
FormatValues ==
  [j \in 1..(Len(last.root.args) - 1) |->
     Deref(last.root.args[j + 1], last.basecontext, Cardinality(Keys))]
FormatKwValues ==
  [j \in 1..Len(last.root.kwargs) |->
     Deref(last.root.kwargs[j].value, last.basecontext, Cardinality(Keys))]

\* what the rendered FormatString is to give
FormatExpected ==
  FormatWalk(last.root.args[1].s, 1, 0, HasHtml(last.root.args[1]),
             [j \in 1..Len(FormatValues) |-> FormatSub(FormatValues[j], last.basecontext)],
             [j \in 1..Len(FormatKwValues) |->
                Attr(last.root.kwargs[j].key,
                     FormatSub(FormatKwValues[j], last.basecontext))])

\* a FormatString was rendered in full and no field of it lacked its argument
FormatRendered ==
  /\ Rendered
  /\ last.root.cls = "FormatString"
  /\ last.fragment = NoFragment
  /\ last.exc.k = "noexc" \/ last.exc.type \notin {"IndexError", "KeyError"}

\* C21: the literal characters of the format string are emitted as they are
\* when the format string is safe and escaped otherwise, and every str
\* argument is escaped unless it is safe itself, whatever the format string
\* is.
C21_EscapedPerValue ==
  (/\ FormatRendered
   /\ \A j \in 1..Len(FormatValues) : FormatValues[j].k = "str"
   /\ \A j \in 1..Len(FormatKwValues) : FormatKwValues[j].k = "str") =>
    last.exc = NoExc /\ last.out = FormatExpected

\* a safe format string with an unsafe argument, and an unsafe format string
\* with a safe argument that a Lazy resolves to
C21_Witness ==
  /\ FormatRendered
  /\ \/ /\ last.root.args = <<SafeString(<<"<", "b", ">", "{", "}", "&">>), RawText>>
        /\ last.out = <<"<", "b", ">", "&", "l", "t", ";", "b", "&", "g", "t", ";",
                        "&", "a", "m", "p", ";", "&", "q", "u", "o", "t", ";", "&">>
     \/ /\ last.root.args = <<Text(<<"<", "b", ">", "{", "}", "&">>), C("c")>>
        /\ last.basecontext["c"] = SafeText
        /\ last.out = <<"&", "l", "t", ";", "b", "&", "g", "t", ";",
                        "<", "i", ">", "&", "\"", "&", "a", "m", "p", ";">>

\* C22: an argument that resolves to zero, to False or to the empty str
\* stands in the output by its text form, and only None stands as nothing.
C22_FalsyInterpolated ==
  (/\ FormatRendered
   /\ \A j \in 1..Len(FormatValues) :
        ~IsBaseElement(FormatValues[j]) /\ ~Truthy(FormatValues[j])
   /\ \A j \in 1..Len(FormatKwValues) : FormatKwValues[j].k = "str") =>
    last.exc = NoExc /\ last.out = FormatExpected

\* FormatString("1{}", C("x")) was rendered against {x: 0} and gave "10"
C22_Witness ==
  /\ FormatRendered
  /\ last.root.args = <<Text(<<"1", "{", "}">>), C("x")>>
  /\ last.basecontext["x"] = PyInt(0)
  /\ last.out = <<"1", "0">>

\* C29: an argument that is an element, or that a Lazy resolves to an
\* element, stands in the output by what the element renders, not escaped
\* again, and not by the text form of the element object.
C29_ElementsRendered ==
  (/\ FormatRendered
   /\ \E j \in 1..Len(FormatValues) : IsBaseElement(FormatValues[j])
   /\ \A j \in 1..Len(FormatValues) :
        IsBaseElement(FormatValues[j]) =>
          render(FormatValues[j], last.basecontext, NoFragment).exc = NoExc) =>
    last.exc = NoExc /\ last.out = FormatExpected

\* the value a lookup stands for, segment by segment from bit i on: the
\* value under the key when the current value is a mapping with that key,
\* else the attribute of that name when the current value has one, else the
\* item at that index when the bit is a number and the item exists, else
\* None for the whole lookup; a value found is called when it is callable
\* and requires no parameter, and is kept as it is otherwise; what a
\* property or a call raises is the outcome
RECURSIVE LookupExpected(_, _, _)
LookupExpected(current, bits, i) ==
  IF i > Len(bits) THEN current
  ELSE LET bit == bits[i]
           found ==
             IF ~IsRaised(Subscript(current, bit)) THEN Subscript(current, bit)
             ELSE IF InDir(current, bit) THEN GetAttr(current, bit)
             ELSE IF ~IsRaised(int(bit)) /\ ~IsRaised(Index(current, int(bit).n))
             THEN Index(current, int(bit).n)
             ELSE Return(None)
           next ==
             IF callable(found) /\ found.required = 0 THEN found.result ELSE found
       IN IF IsRaised(found) THEN found
          ELSE IF found.k = "return" THEN None
          ELSE IF IsRaised(next) THEN next
          ELSE LookupExpected(next, bits, i + 1)

LookupBits == split(last.lookup, 1, <<>>)

\* C23: a dotted lookup resolves its segments left to right, by key, then
\* by attribute, then by integer index, calls what it finds when that is
\* callable without arguments and keeps a callable that requires
\* parameters uninvoked; a segment none of these resolves makes the whole
\* lookup None, and nothing is raised for it.
C23_SegmentsLeftToRight ==
  (last.k = "lookup" /\ last.resolved
   /\ ~IsRaised(LookupExpected(last.context, LookupBits, 1)))
    => last.value = LookupExpected(last.context, LookupBits, 1)

\* C24: when a segment names an existing property or callable without
\* required parameters that raises, the lookup raises that very exception,
\* whatever its type; it does not yield None.
C24_ErrorsPropagate ==
  (last.k = "lookup" /\ last.resolved
   /\ IsRaised(LookupExpected(last.context, LookupBits, 1)))
    => last.value = LookupExpected(last.context, LookupBits, 1)

====
